---- MODULE Spec2Model ----
(***************************************************************************)
(* Model of the NAMASTE / ICD-11 terminology service.                      *)
(*                                                                         *)
(*  SpecTranslate : the YogaVision server's POST /fhir/ConceptMap/         *)
(*                  $translate and POST /api/mapping/suggest handlers as   *)
(*                  concurrent asynchronous requests over the              *)
(*                  concept_mappings table and the Gemini provider.        *)
(*  SpecValidate  : POST /api/bundle/validate and                          *)
(*                  TerminologyService.validateFHIRBundle over untrusted   *)
(*                  JSON payloads.                                         *)
(***************************************************************************)
EXTENDS Integers, Sequences, FiniteSets, TLC

VARIABLES
    conceptMappings,  \* table concept_mappings, rows in insertion order
    pc,               \* per request slot: the await the handler is suspended at
    req,              \* per slot: the request's parameters
    found,            \* per slot: rows returned by storage.getConceptMappings
    aiMappings,       \* per slot: list returned by generateConceptMappings
    cursor,           \* per slot: index of the next aiMappings element to store
    calls,            \* per slot: provider invocations made by the request
    lastReply,        \* per slot: how the provider call of the request settled
    resp,             \* per slot: the HTTP response sent
    nreq,             \* requests started so far
    payload,          \* validate route: the request body
    vpc,              \* validate route: position of the handler
    vresp,            \* validate route: the HTTP response sent
    problemEntries,   \* table problem_entries, rows in insertion order
    bop,              \* the builder operation that ran last
    bin,              \* its input
    bout,             \* the resource it returned
    spc,              \* search: position of the handler
    sreq,             \* search: the request
    scodes,           \* search: rows the repository returned
    scursor,          \* search: index of the next row to enrich
    sresults,         \* search: result rows built so far
    sreplies,         \* search: how the provider call of each row settled
    sresp,            \* search: the HTTP response sent
    tcodes,           \* service repository: table of terminology codes
    smappings,        \* service repository: table of concept mappings
    rresp             \* service repository routes: the last response sent

vars == <<conceptMappings, pc, req, found, aiMappings, cursor, calls, lastReply,
          resp, nreq, payload, vpc, vresp, problemEntries, bop, bin, bout,
          spc, sreq, scodes, scursor, sresults, sreplies, sresp,
          tcodes, smappings, rresp>>

translateVars == <<conceptMappings, pc, req, found, aiMappings, cursor, calls,
                   lastReply, resp, nreq>>

validateVars == <<payload, vpc, vresp>>

buildVars == <<problemEntries, bop, bin, bout>>

searchVars == <<spc, sreq, scodes, scursor, sresults, sreplies, sresp>>

repoVars == <<tcodes, smappings, rresp>>

-----------------------------------------------------------------------------
(* Bounds *)

MaxRequests == 2

MaxEntries == 2

MaxProblems == 2

MaxConcepts == 2

-----------------------------------------------------------------------------
(* Strings.  A URI is the sequence of its tokens, so that                  *)
(* String.prototype.includes is a real substring test.                     *)

includes(hay, needle) ==
    \E i \in 0..(Len(hay) - Len(needle)) :
        \A j \in 1..Len(needle) : hay[i + j] = needle[j]

NamasteSystem == <<"http:", "namaste", "gov", "in", "CodeSystem">>

IcdSystem == <<"http:", "id", "who", "int", "icd", "release", "11", "mms">>

SnomedSystem == <<"http:", "snomed", "info", "sct">>

NoString == <<>>

-----------------------------------------------------------------------------
(* Repository: tables namaste_codes and concept_mappings.                  *)

\* A nullable integer column: <<>> is NULL, <<n>> is the value n.
NULL == <<>>

namasteCodes ==
    { [code |-> "AYU-DIG-001", display |-> "Agnimandya",
       definition |-> "Digestive fire weakness"],
      [code |-> "AYU-DIG-002", display |-> "Ajirna",
       definition |-> "Indigestion"] }

SeedMappings ==
    << [sourceCode |-> "AYU-DIG-001", sourceSystem |-> NamasteSystem,
        targetCode |-> "TM2-YM25", targetSystem |-> IcdSystem,
        equivalence |-> "equivalent", confidence |-> <<85>>,
        aiGenerated |-> FALSE],
       [sourceCode |-> "AYU-RES-001", sourceSystem |-> NamasteSystem,
        targetCode |-> "TM2-YM26", targetSystem |-> IcdSystem,
        equivalence |-> "equivalent", confidence |-> <<90>>,
        aiGenerated |-> FALSE] >>

SourceCodes == {"AYU-DIG-001", "AYU-DIG-002", "XYZ-000", ""}

SourceSystems == {NamasteSystem, IcdSystem}

TargetSystems == {IcdSystem, SnomedSystem}

Slots == {"a", "b"}

-----------------------------------------------------------------------------
(* DatabaseStorage (YogaVision)                                            *)

\* ORDER BY confidence DESC: PostgreSQL sorts NULL as larger than every
\* value, so DESC puts NULL rows first; rows with equal keys come in any order.
SortsBefore(a, b) ==
    \/ a.confidence = NULL /\ b.confidence # NULL
    \/ a.confidence # NULL /\ b.confidence # NULL
         /\ a.confidence[1] > b.confidence[1]

RemoveAt(rows, i) ==
    [k \in 1..(Len(rows) - 1) |-> IF k < i THEN rows[k] ELSE rows[k + 1]]

RECURSIVE orderByDesc(_)
orderByDesc(rows) ==
    IF rows = <<>> THEN {<<>>}
    ELSE LET firsts == {i \in 1..Len(rows) :
                          \A j \in 1..Len(rows) : ~SortsBefore(rows[j], rows[i])}
         IN  UNION {{<<rows[i]>> \o t : t \in orderByDesc(RemoveAt(rows, i))} :
                    i \in firsts}

\* The WHERE clause: one condition per truthy argument, joined with or(...).
whereConceptMappings(row, sourceCode, targetSystem) ==
    LET conditions ==
            (IF sourceCode # "" THEN {row.sourceCode = sourceCode} ELSE {})
            \cup
            (IF targetSystem # NoString
                THEN {row.targetSystem = targetSystem} ELSE {})
    IN  conditions = {} \/ TRUE \in conditions

\* The set of results the query may return.
getConceptMappings(table, sourceCode, targetSystem) ==
    orderByDesc(SelectSeq(table,
        LAMBDA row : whereConceptMappings(row, sourceCode, targetSystem)))

getNamasteCodeByCode(code) == {c \in namasteCodes : c.code = code}

\* INSERT ... RETURNING: no unique constraint on concept_mappings; columns
\* that are not given take their defaults, keys that are no column are dropped.
createConceptMapping(table, mapping) ==
    Append(table,
        [sourceCode |-> mapping.sourceCode, sourceSystem |-> mapping.sourceSystem,
         targetCode |-> mapping.targetCode, targetSystem |-> mapping.targetSystem,
         equivalence |-> mapping.equivalence, confidence |-> mapping.confidence,
         aiGenerated |-> FALSE])

-----------------------------------------------------------------------------
(* The Gemini provider and generateConceptMappings                          *)

Suggestion25 ==
    [targetCode |-> "TM2-YM25", targetDisplay |-> "Digestive system disorders",
     confidence |-> <<40>>]

Suggestion27 ==
    [targetCode |-> "TM2-YM27", targetDisplay |-> "Nervous system disorders",
     confidence |-> <<95>>]

\* "confidence": null in the provider's JSON; JSON.parse output is not validated.
Suggestion28 ==
    [targetCode |-> "TM2-YM28", targetDisplay |-> "Musculoskeletal disorders",
     confidence |-> NULL]

SuggestionLists ==
    {<<>>, <<Suggestion25>>, <<Suggestion28>>, <<Suggestion27, Suggestion25>>}

\* What ai.models.generateContent does: reject, resolve with no text, resolve
\* with text that is no JSON object with a mappings array, or resolve with one.
ProviderReplies ==
    {[kind |-> k, mappings |-> <<>>] : k \in {"throws", "empty", "malformed"}}
    \cup {[kind |-> "json", mappings |-> l] : l \in SuggestionLists}

\* generateConceptMappings without its try/catch: a failure of the call or of
\* the parse leaves the function as an exception.
generateConceptMappingsUncaught(namasteCode, namasteDisplay, reply) ==
    IF reply.kind \in {"throws", "malformed"}
    THEN [threw |-> TRUE, value |-> <<>>]
    ELSE [threw |-> FALSE,
          value |-> [i \in 1..Len(reply.mappings) |->
                       [sourceCode |-> namasteCode,
                        sourceDisplay |-> namasteDisplay,
                        targetCode |-> reply.mappings[i].targetCode,
                        targetDisplay |-> reply.mappings[i].targetDisplay,
                        confidence |-> reply.mappings[i].confidence]]]

\* [threw, value]: the whole body is inside try/catch, which returns [].
generateConceptMappings(namasteCode, namasteDisplay, reply) ==
    IF reply.kind = "json"
    THEN [threw |-> FALSE,
          value |-> [i \in 1..Len(reply.mappings) |->
                       [sourceCode |-> namasteCode,
                        sourceDisplay |-> namasteDisplay,
                        targetCode |-> reply.mappings[i].targetCode,
                        targetDisplay |-> reply.mappings[i].targetDisplay,
                        confidence |-> reply.mappings[i].confidence]]]
    ELSE [threw |-> FALSE, value |-> <<>>]

-----------------------------------------------------------------------------
(* fhir.ts                                                                  *)

\* Mutation of createFHIRTranslationResult: result is true for every list.
createFHIRTranslationResultAlwaysTrue(sourceCode, sourceSystem, sourceDisplay, mappings) ==
    [resourceType |-> "Parameters",
     parameter |->
        <<[name |-> "result", valueBoolean |-> TRUE]>>
        \o [i \in 1..Len(mappings) |->
               [name |-> "match",
                part |-> <<[name |-> "equivalence",
                            valueCode |-> mappings[i].equivalence],
                           [name |-> "concept",
                            valueCoding |->
                                [system |-> mappings[i].system,
                                 code |-> mappings[i].code,
                                 display |-> mappings[i].display]]>>]]]

createFHIRTranslationResult(sourceCode, sourceSystem, sourceDisplay, mappings) ==
    LET hasResults == Len(mappings) > 0
        parameters == <<[name |-> "result", valueBoolean |-> hasResults]>>
        matches == [i \in 1..Len(mappings) |->
                      [name |-> "match",
                       part |-> <<[name |-> "equivalence",
                                   valueCode |-> mappings[i].equivalence],
                                  [name |-> "concept",
                                   valueCoding |->
                                       [system |-> mappings[i].system,
                                        code |-> mappings[i].code,
                                        display |-> mappings[i].display]]>>]]
    IN  [resourceType |-> "Parameters",
         parameter |-> IF hasResults THEN parameters \o matches ELSE parameters]

-----------------------------------------------------------------------------
(* routes.ts (YogaVision): POST /fhir/ConceptMap/$translate and             *)
(* POST /api/mapping/suggest.  A handler runs from one await to the next    *)
(* without interruption; other requests run while it is suspended.          *)

NoRequest ==
    [kind |-> "none", code |-> "", system |-> NoString, target |-> NoString,
     display |-> ""]

NoResponse == [status |-> 0, body |-> "none"]

Respond(s, status, body) ==
    /\ resp' = [resp EXCEPT ![s] = [status |-> status, body |-> body]]
    /\ pc' = [pc EXCEPT ![s] = "done"]

\* mappings.map(...) of the translate handler
translationResultsOf(mappings) ==
    [i \in 1..Len(mappings) |->
        [code |-> mappings[i].targetCode, system |-> mappings[i].targetSystem,
         display |-> "", equivalence |-> mappings[i].equivalence]]

\* aiMappings.map(...) of the translate handler
aiTranslationResultsOf(mappings) ==
    [i \in 1..Len(mappings) |->
        [code |-> mappings[i].targetCode, system |-> IcdSystem,
         display |-> mappings[i].targetDisplay, equivalence |-> "equivalent"]]

\* The guard with the length test left out.
fallbackGuardAnyLength(translationResults, sourceSystem) ==
    includes(sourceSystem, <<"namaste", "gov", "in">>)

\* The guard with the source system test left out.
fallbackGuardAnySystem(translationResults, sourceSystem) ==
    Len(translationResults) = 0

\* if (translationResults.length === 0 && sourceSystem.includes('namaste.gov.in'))
fallbackGuard(translationResults, sourceSystem) ==
    /\ Len(translationResults) = 0
    /\ includes(sourceSystem, <<"namaste", "gov", "in">>)

translateResponse(r, translationResults) ==
    createFHIRTranslationResult(r.code, r.system, "", translationResults)

\* The request arrives: the parameters are read and the lookup is issued.
StartTranslate(s) ==
    /\ pc[s] = "idle"
    /\ nreq < MaxRequests
    /\ \E code \in SourceCodes, system \in SourceSystems,
          target \in TargetSystems \cup {NoString} :
          /\ req' = [req EXCEPT ![s] =
                       [kind |-> "translate", code |-> code, system |-> system,
                        target |-> target, display |-> ""]]
          /\ IF code = "" \/ system = NoString \/ target = NoString
             THEN Respond(s, 400, "Code, system, and target parameters are required")
             ELSE /\ pc' = [pc EXCEPT ![s] = "lookup"]
                  /\ resp' = resp
    /\ nreq' = nreq + 1
    /\ UNCHANGED <<conceptMappings, found, aiMappings, cursor, calls, lastReply>>
    /\ UNCHANGED <<validateVars, buildVars, searchVars, repoVars>>

\* storage.getConceptMappings resolves.
LookupReturns(s) ==
    /\ pc[s] = "lookup"
    /\ \E mappings \in getConceptMappings(conceptMappings, req[s].code, req[s].target) :
          /\ found' = [found EXCEPT ![s] = mappings]
          /\ IF fallbackGuard(translationResultsOf(mappings), req[s].system)
             THEN /\ pc' = [pc EXCEPT ![s] = "getcode"]
                  /\ resp' = resp
             ELSE Respond(s, 200,
                          translateResponse(req[s], translationResultsOf(mappings)))
    /\ UNCHANGED <<conceptMappings, req, aiMappings, cursor, calls, lastReply, nreq>>
    /\ UNCHANGED <<validateVars, buildVars, searchVars, repoVars>>

\* storage.getNamasteCodeByCode resolves; a record found starts the provider call.
GetCodeReturns(s) ==
    /\ pc[s] = "getcode"
    /\ LET namasteCode == getNamasteCodeByCode(req[s].code)
       IN  IF namasteCode # {}
           THEN /\ req' = [req EXCEPT ![s].display =
                             (CHOOSE c \in namasteCode : TRUE).display]
                /\ calls' = [calls EXCEPT ![s] = @ + 1]
                /\ pc' = [pc EXCEPT ![s] = "provider"]
                /\ resp' = resp
           ELSE /\ Respond(s, 200, translateResponse(req[s], <<>>))
                /\ UNCHANGED <<req, calls>>
    /\ UNCHANGED <<conceptMappings, found, aiMappings, cursor, lastReply, nreq>>
    /\ UNCHANGED <<validateVars, buildVars, searchVars, repoVars>>

\* The request arrives: code and display are checked, the provider is called.
StartSuggest(s) ==
    /\ pc[s] = "idle"
    /\ nreq < MaxRequests
    /\ \E code \in SourceCodes, display \in {"", "Agnimandya"},
          system \in {NoString, NamasteSystem} :
          /\ req' = [req EXCEPT ![s] =
                       [kind |-> "suggest", code |-> code, system |-> system,
                        target |-> NoString, display |-> display]]
          /\ IF code = "" \/ display = ""
             THEN /\ Respond(s, 400, "Code and display are required")
                  /\ calls' = calls
             ELSE /\ calls' = [calls EXCEPT ![s] = @ + 1]
                  /\ pc' = [pc EXCEPT ![s] = "provider"]
                  /\ resp' = resp
    /\ nreq' = nreq + 1
    /\ UNCHANGED <<conceptMappings, found, aiMappings, cursor, lastReply>>
    /\ UNCHANGED <<validateVars, buildVars, searchVars, repoVars>>

suggestResponse(r, mappings) == [sourceCode |-> r.code, mappings |-> mappings]

\* The values the suggest handler passes to storage.createConceptMapping.
suggestInsertValues(r, mapping) ==
    [sourceCode |-> r.code,
     sourceSystem |-> IF r.system # NoString THEN r.system ELSE NamasteSystem,
     targetCode |-> mapping.targetCode, targetSystem |-> IcdSystem,
     equivalence |-> "equivalent", confidence |-> mapping.confidence]

\* ai.models.generateContent settles and generateConceptMappings returns.
ProviderReturns(s) ==
    /\ pc[s] = "provider"
    /\ \E reply \in ProviderReplies :
          /\ lastReply' = [lastReply EXCEPT ![s] = reply.kind]
          /\ LET g == generateConceptMappings(req[s].code, req[s].display, reply)
             IN  IF g.threw
                 THEN /\ Respond(s, 500, IF req[s].kind = "translate"
                                         THEN "Translation failed"
                                         ELSE "Mapping suggestion failed")
                      /\ UNCHANGED <<aiMappings, cursor>>
                 ELSE /\ aiMappings' = [aiMappings EXCEPT ![s] = g.value]
                      /\ IF req[s].kind = "translate"
                         THEN /\ Respond(s, 200,
                                   translateResponse(req[s], aiTranslationResultsOf(g.value)))
                              /\ cursor' = cursor
                         ELSE IF Len(g.value) = 0
                         THEN /\ Respond(s, 200, suggestResponse(req[s], g.value))
                              /\ cursor' = cursor
                         ELSE /\ pc' = [pc EXCEPT ![s] = "insert"]
                              /\ cursor' = [cursor EXCEPT ![s] = 1]
                              /\ resp' = resp
    /\ UNCHANGED <<conceptMappings, req, found, calls, nreq>>
    /\ UNCHANGED <<validateVars, buildVars, searchVars, repoVars>>

\* InsertReturns without the inner try/catch: a failed insert reaches the
\* handler's catch block and the request is answered 500.
InsertReturnsUncaught(s) ==
    /\ pc[s] = "insert"
    /\ \E stored \in BOOLEAN :
          IF stored
          THEN /\ conceptMappings' =
                      createConceptMapping(conceptMappings,
                          suggestInsertValues(req[s], aiMappings[s][cursor[s]]))
               /\ IF cursor[s] < Len(aiMappings[s])
                  THEN /\ cursor' = [cursor EXCEPT ![s] = @ + 1]
                       /\ UNCHANGED <<pc, resp>>
                  ELSE /\ Respond(s, 200, suggestResponse(req[s], aiMappings[s]))
                       /\ cursor' = cursor
          ELSE /\ Respond(s, 500, "Mapping suggestion failed")
               /\ UNCHANGED <<conceptMappings, cursor>>
    /\ UNCHANGED <<req, found, aiMappings, calls, lastReply, nreq>>
    /\ UNCHANGED <<validateVars, buildVars, searchVars, repoVars>>

\* storage.createConceptMapping settles: the row is stored, or the insert
\* failed and the catch block drops the error; then the loop goes on.
InsertReturns(s) ==
    /\ pc[s] = "insert"
    /\ \E stored \in BOOLEAN :
          conceptMappings' =
              IF stored
              THEN createConceptMapping(conceptMappings,
                       suggestInsertValues(req[s], aiMappings[s][cursor[s]]))
              ELSE conceptMappings
    /\ IF cursor[s] < Len(aiMappings[s])
       THEN /\ cursor' = [cursor EXCEPT ![s] = @ + 1]
            /\ UNCHANGED <<pc, resp>>
       ELSE /\ Respond(s, 200, suggestResponse(req[s], aiMappings[s]))
            /\ cursor' = cursor
    /\ UNCHANGED <<req, found, aiMappings, calls, lastReply, nreq>>
    /\ UNCHANGED <<validateVars, buildVars, searchVars, repoVars>>

\* The response has been sent; the slot takes the next request.
Finish(s) ==
    /\ pc[s] = "done"
    /\ pc' = [pc EXCEPT ![s] = "idle"]
    /\ req' = [req EXCEPT ![s] = NoRequest]
    /\ found' = [found EXCEPT ![s] = <<>>]
    /\ aiMappings' = [aiMappings EXCEPT ![s] = <<>>]
    /\ cursor' = [cursor EXCEPT ![s] = 0]
    /\ calls' = [calls EXCEPT ![s] = 0]
    /\ lastReply' = [lastReply EXCEPT ![s] = "none"]
    /\ resp' = [resp EXCEPT ![s] = NoResponse]
    /\ UNCHANGED <<conceptMappings, nreq>>
    /\ UNCHANGED <<validateVars, buildVars, searchVars, repoVars>>

NoPayload ==
    [kind |-> "none", resourceType |-> "", type |-> "",
     entry |-> [kind |-> "absent", items |-> <<>>]]

NoSummary ==
    [present |-> FALSE, resources |-> 0, conditions |-> 0,
     namasteCodes |-> 0, icd11Codes |-> 0]

\* errors / warnings of <<>> stand for a member that is undefined or absent.
NoReport == [valid |-> FALSE, errors |-> <<>>, warnings |-> <<>>, summary |-> NoSummary]

NoValidateResponse == [status |-> 0, report |-> NoReport]

TranslateIdle ==
    /\ conceptMappings = SeedMappings
    /\ pc = [s \in Slots |-> "idle"]
    /\ req = [s \in Slots |-> NoRequest]
    /\ found = [s \in Slots |-> <<>>]
    /\ aiMappings = [s \in Slots |-> <<>>]
    /\ cursor = [s \in Slots |-> 0]
    /\ calls = [s \in Slots |-> 0]
    /\ lastReply = [s \in Slots |-> "none"]
    /\ resp = [s \in Slots |-> NoResponse]
    /\ nreq = 0

ValidateIdle ==
    /\ payload = NoPayload
    /\ vpc = "idle"
    /\ vresp = NoValidateResponse

BuildIdle ==
    /\ problemEntries = <<>>
    /\ bop = "none"
    /\ bin = <<>>
    /\ bout = [resourceType |-> "none"]

\* A column or member that is NULL / null.
NoText == <<>>

\* MemStorage.seedData: the rows of table terminology codes at start.
terminologyCodes ==
    << [code |-> <<"A", "1">>, display |-> <<"A", "g", "n", "i">>, definition |-> <<"d", "i", "g", "e", "s", "t", "i", "v", "e">>,
        system |-> "NAMASTE"],
       [code |-> <<"A", "2">>, display |-> <<"K", "a", "s", "a">>, definition |-> NoText,
        system |-> "NAMASTE"],
       [code |-> <<"A", "3">>, display |-> <<"L", "u", "n", "g">>, definition |-> <<"k", "a", "s", "a">>,
        system |-> "NAMASTE"],
       [code |-> <<"T", "1">>, display |-> <<"D", "i", "g", "e", "s", "t", "i", "v", "e">>, definition |-> <<"a", "g", "n", "i">>,
        system |-> "ICD-11-TM2"] >>

\* MemStorage seed rows of table concept mappings.
serviceMappings ==
    << [id |-> <<"seed", "m1", 1>>, sourceCode |-> <<"A", "1">>, sourceSystem |-> "NAMASTE",
        targetCode |-> "TM2-DA01", targetSystem |-> "ICD-11-TM2",
        equivalence |-> "equivalent", confidence |-> "95%"] >>

NoRepoResponse == [op |-> "none", status |-> 0, body |-> [error |-> "none"]]

RepoIdle ==
    /\ tcodes = terminologyCodes
    /\ smappings = serviceMappings
    /\ rresp = NoRepoResponse

NoSearchRequest ==
    [route |-> "none", query |-> <<>>, systems |-> <<>>,
     includeSuggestions |-> FALSE, includeIcd |-> FALSE, limit |-> 0]

NoSearchResponse == [status |-> 0, body |-> [error |-> "none"]]

SearchIdle ==
    /\ spc = "idle"
    /\ sreq = NoSearchRequest
    /\ scodes = <<>>
    /\ scursor = 0
    /\ sresults = <<>>
    /\ sreplies = <<>>
    /\ sresp = NoSearchResponse

InitTranslate == TranslateIdle /\ ValidateIdle /\ BuildIdle /\ SearchIdle /\ RepoIdle

\* Steps the server takes by itself once they are enabled.
ServerStep(s) ==
    \/ LookupReturns(s)
    \/ GetCodeReturns(s)
    \/ InsertReturns(s)
    \/ Finish(s)

NextTranslate ==
    \E s \in Slots :
        \/ StartTranslate(s)
        \/ StartSuggest(s)
        \/ ProviderReturns(s)
        \/ ServerStep(s)

SpecTranslate == InitTranslate /\ [][NextTranslate]_vars

\* The database answers every query and the event loop runs every ready
\* continuation; nothing makes the provider answer.
FairSpecTranslate ==
    SpecTranslate /\ \A s \in Slots : WF_vars(ServerStep(s))

-----------------------------------------------------------------------------
(* Properties of $translate and mapping-suggest                             *)

IsTranslate(s) == req[s].kind = "translate"

LookupDone(s) == pc[s] \in {"getcode", "provider", "done"} /\ resp[s].status # 400

EmptyTranslation ==
    [resourceType |-> "Parameters",
     parameter |-> <<[name |-> "result", valueBoolean |-> FALSE]>>]

\* C1: in a $translate request the provider is invoked only after the
\* repository lookup has returned and returned zero rows; a request whose
\* lookup returned at least one mapping never invokes it.
RepositoryFirst ==
    \A s \in Slots :
        IsTranslate(s) =>
            /\ (calls[s] > 0 \/ pc[s] \in {"getcode", "provider"})
                   => LookupDone(s) /\ Len(found[s]) = 0
            /\ Len(found[s]) > 0 => calls[s] = 0

\* A completed $translate of a NAMASTE code that has a record, answered from
\* the repository without a provider call.
RepositoryFirstWitness ==
    \E s \in Slots :
        /\ IsTranslate(s) /\ pc[s] = "done" /\ resp[s].status = 200
        /\ req[s].system = NamasteSystem
        /\ getNamasteCodeByCode(req[s].code) # {}
        /\ Len(found[s]) > 0
        /\ calls[s] = 0

\* C2: when a $translate request has obtained matches from the provider, each
\* match is stored as a concept mapping of the source code marked ai-generated.
WriteThroughOnTranslate ==
    \A s \in Slots :
        (IsTranslate(s) /\ pc[s] = "done" /\ Len(aiMappings[s]) > 0) =>
            \A i \in 1..Len(aiMappings[s]) :
                \E k \in 1..Len(conceptMappings) :
                    /\ conceptMappings[k].sourceCode = req[s].code
                    /\ conceptMappings[k].targetCode = aiMappings[s][i].targetCode
                    /\ conceptMappings[k].aiGenerated

\* C3: a $translate request whose provider call failed (exception, empty or
\* malformed response) completes with status 200 and the empty match list.
GracefulDegradation ==
    \A s \in Slots :
        (IsTranslate(s) /\ pc[s] = "done"
            /\ lastReply[s] \in {"throws", "empty", "malformed"}) =>
            /\ resp[s].status = 200
            /\ resp[s].body = EmptyTranslation

\* A completed $translate of an unmapped NAMASTE code whose provider call threw.
GracefulDegradationWitness ==
    \E s \in Slots :
        /\ IsTranslate(s) /\ pc[s] = "done"
        /\ lastReply[s] = "throws"
        /\ calls[s] = 1
        /\ found[s] = <<>>
        /\ includes(req[s].system, <<"namaste">>)
        /\ resp[s].status = 200

\* The rows of the lookup result that map the requested source code.
ownRows(s) ==
    SelectSeq(found[s], LAMBDA row : row.sourceCode = req[s].code)

\* C4: the mappings of the requested source code come back from the lookup of
\* $translate in non-increasing order of confidence, a mapping without a
\* confidence never ahead of one that has a confidence.
ConfidenceOrdering ==
    \A s \in Slots :
        IsTranslate(s) =>
            \A i, j \in 1..Len(ownRows(s)) :
                (i < j /\ ownRows(s)[j].confidence # NULL) =>
                    /\ ownRows(s)[i].confidence # NULL
                    /\ ownRows(s)[i].confidence[1] >= ownRows(s)[j].confidence[1]

\* C5: a $translate request for a source code that has no code record and no
\* mapping answers 200 with the empty match list, whatever else is stored.
UnknownSourceEmpty ==
    \A s \in Slots :
        (/\ IsTranslate(s) /\ pc[s] = "done" /\ resp[s].status # 400
         /\ getNamasteCodeByCode(req[s].code) = {}
         /\ \A k \in 1..Len(conceptMappings) :
                conceptMappings[k].sourceCode # req[s].code) =>
            /\ resp[s].status = 200
            /\ resp[s].body = EmptyTranslation

\* The stored rows for one (sourceCode, sourceSystem, targetCode, targetSystem).
rowsFor(values) ==
    {k \in 1..Len(conceptMappings) :
        /\ conceptMappings[k].sourceCode = values.sourceCode
        /\ conceptMappings[k].sourceSystem = values.sourceSystem
        /\ conceptMappings[k].targetCode = values.targetCode
        /\ conceptMappings[k].targetSystem = values.targetSystem}

\* C6: when two overlapping requests for the same source code were given the
\* same target code by the provider and both have run their inserts, the
\* repository holds at most one row for that
\* (sourceCode, sourceSystem, targetCode, targetSystem).
NoDuplicateMappings ==
    \A s, t \in Slots :
        (/\ s # t
         /\ pc[s] = "done" /\ pc[t] = "done"
         /\ req[s].code = req[t].code) =>
            \A i \in 1..Len(aiMappings[s]), j \in 1..Len(aiMappings[t]) :
                (/\ aiMappings[s][i].targetCode = aiMappings[t][j].targetCode
                 /\ suggestInsertValues(req[s], aiMappings[s][i]).sourceSystem
                        = suggestInsertValues(req[t], aiMappings[t][j]).sourceSystem)
                    => Cardinality(rowsFor(suggestInsertValues(req[s], aiMappings[s][i]))) <= 1

\* C7: a $translate request that has invoked the provider eventually
\* completes with a response, whether or not the provider ever answers.
BoundedProviderCall ==
    \A s \in Slots :
        (IsTranslate(s) /\ pc[s] = "provider") ~> (IsTranslate(s) /\ pc[s] = "done")

-----------------------------------------------------------------------------
(* JSON payloads of POST /api/bundle/validate.  Every level is a record     *)
(* with a kind, so that an absent, null or wrongly typed member is a value. *)

WhoSystem == <<"http:", "who", "int", "classifications">>

BridgeSystem == <<"http:", "namaste", "gov", "in", "icd", "map">>

StringSystem(v) == [kind |-> "string", value |-> v]

CodingOf(system) == [kind |-> "object", system |-> system]

NamasteCoding == CodingOf(StringSystem(NamasteSystem))

IcdCoding == CodingOf(StringSystem(IcdSystem))

WhoCoding == CodingOf(StringSystem(WhoSystem))

NullCoding == [kind |-> "null", system |-> [kind |-> "absent", value |-> NoString]]

Codings ==
    { NamasteCoding, IcdCoding, WhoCoding,
      CodingOf(StringSystem(SnomedSystem)),
      CodingOf(StringSystem(BridgeSystem)),
      CodingOf([kind |-> "absent", value |-> NoString]),
      CodingOf([kind |-> "number", value |-> NoString]),
      NullCoding }

CodingLists ==
    {<<>>} \cup {<<c>> : c \in Codings}
           \cup {<<NamasteCoding, c>> : c \in {NamasteCoding, IcdCoding, WhoCoding}}

CodingFields ==
    {[kind |-> k, items |-> <<>>] : k \in {"absent", "number"}}
    \cup {[kind |-> "array", items |-> l] : l \in CodingLists}

NoCode == [kind |-> "absent", coding |-> [kind |-> "absent", items |-> <<>>]]

Codes == {NoCode} \cup {[kind |-> "object", coding |-> f] : f \in CodingFields}

NoResource == [kind |-> "absent", resourceType |-> "", code |-> NoCode]

\* A resource that is no Condition and carries codings of both systems.
CodedObservation ==
    [kind |-> "object", resourceType |-> "Observation",
     code |-> [kind |-> "object",
               coding |-> [kind |-> "array", items |-> <<NamasteCoding, IcdCoding>>]]]

Resources ==
    {NoResource, [kind |-> "object", resourceType |-> "Patient", code |-> NoCode],
     CodedObservation}
    \cup {[kind |-> "object", resourceType |-> "Condition", code |-> c] : c \in Codes}

Entries ==
    {[kind |-> "null", resource |-> NoResource]}
    \cup {[kind |-> "object", resource |-> r] : r \in Resources}

RECURSIVE SeqsUpTo(_, _)
SeqsUpTo(S, n) ==
    IF n = 0 THEN {<<>>}
    ELSE LET shorter == SeqsUpTo(S, n - 1)
         IN  shorter \cup {Append(q, x) : q \in shorter, x \in S}

EntryFields ==
    {[kind |-> k, items |-> <<>>] : k \in {"absent", "nonarray"}}
    \cup {[kind |-> "array", items |-> l] : l \in SeqsUpTo(Entries, MaxEntries)}

Payloads ==
    {[kind |-> "nonobject", resourceType |-> "", type |-> "",
      entry |-> [kind |-> "absent", items |-> <<>>]]}
    \cup {[kind |-> "object", resourceType |-> rt, type |-> t, entry |-> e] :
            rt \in {"", "Bundle", "Patient"}, t \in {"", "collection"},
            e \in EntryFields}

-----------------------------------------------------------------------------
(* TerminologyService.validateFHIRBundle                                    *)

ResourceTypeError == "Invalid resourceType. Expected 'Bundle'"

BundleTypeError == "Bundle type is required"

EntryArrayError == "Bundle must have an entry array"

MissingResourceWarning == "Entry missing resource"

DualCodingWarning ==
    "Consider adding dual coding (both NAMASTE and ICD-11) for better interoperability"

structureErrors(bundle) ==
    (IF bundle.resourceType # "Bundle" THEN <<ResourceTypeError>> ELSE <<>>)
    \o (IF bundle.type = "" THEN <<BundleTypeError>> ELSE <<>>)

\* Mutation of entryArrayMissing: the Array.isArray test is dropped.
entryArrayMissingNoIsArray(bundle) == bundle.entry.kind = "absent"

entryArrayMissing(bundle) == bundle.entry.kind # "array"

\* coding.system?.includes(word): undefined for an absent system, a
\* TypeError for a system that is not a string.
systemIncludes(coding, word) ==
    coding.system.kind = "string" /\ includes(coding.system.value, <<word>>)

\* Evaluating the tests on one coding raises a TypeError.
codingThrows(coding) == coding.kind = "null" \/ coding.system.kind = "number"

\* Mutation of scanCodings: the two tests are separate if statements, so a
\* system URI with both words is counted on both sides.
RECURSIVE scanCodingsBoth(_, _)
scanCodingsBoth(codings, acc) ==
    IF codings = <<>> \/ acc.threw THEN acc
    ELSE LET coding == Head(codings)
             isNamaste == systemIncludes(coding, "namaste")
             isIcd == systemIncludes(coding, "icd") \/ systemIncludes(coding, "who")
         IN  scanCodingsBoth(Tail(codings),
                 IF codingThrows(coding) THEN [acc EXCEPT !.threw = TRUE]
                 ELSE [acc EXCEPT !.namasteCodes = IF isNamaste THEN @ + 1 ELSE @,
                                  !.icd11Codes = IF isIcd THEN @ + 1 ELSE @])

RECURSIVE scanCodings(_, _)
scanCodings(codings, acc) ==
    IF codings = <<>> \/ acc.threw THEN acc
    ELSE LET coding == Head(codings)
         IN  scanCodings(Tail(codings),
                 IF codingThrows(coding) THEN [acc EXCEPT !.threw = TRUE]
                 ELSE IF systemIncludes(coding, "namaste")
                      THEN [acc EXCEPT !.namasteCodes = @ + 1]
                 ELSE IF systemIncludes(coding, "icd") \/ systemIncludes(coding, "who")
                      THEN [acc EXCEPT !.icd11Codes = @ + 1]
                 ELSE acc)

visitResource(resource, acc) ==
    LET counted == [acc EXCEPT !.resources = @ + 1]
    IN  IF resource.resourceType # "Condition" THEN counted
        ELSE LET cond == [counted EXCEPT !.conditions = @ + 1]
             IN  IF resource.code.kind = "absent" \/ resource.code.coding.kind = "absent"
                 THEN cond
                 ELSE IF resource.code.coding.kind = "number"
                 THEN [cond EXCEPT !.threw = TRUE]
                 ELSE scanCodings(resource.code.coding.items, cond)

\* Mutation of walkEntries: an entry without a resource ends the walk.
RECURSIVE walkEntriesStopsAtMissing(_, _)
walkEntriesStopsAtMissing(entries, acc) ==
    IF entries = <<>> \/ acc.threw THEN acc
    ELSE LET entry == Head(entries)
         IN  IF entry.kind = "null" THEN [acc EXCEPT !.threw = TRUE]
             ELSE IF entry.resource.kind = "absent"
             THEN [acc EXCEPT !.warnings = Append(@, MissingResourceWarning)]
             ELSE walkEntriesStopsAtMissing(Tail(entries),
                      visitResource(entry.resource, acc))

RECURSIVE walkEntries(_, _)
walkEntries(entries, acc) ==
    IF entries = <<>> \/ acc.threw THEN acc
    ELSE LET entry == Head(entries)
         IN  walkEntries(Tail(entries),
                 IF entry.kind = "null" THEN [acc EXCEPT !.threw = TRUE]
                 ELSE IF entry.resource.kind = "absent"
                      THEN [acc EXCEPT !.warnings = Append(@, MissingResourceWarning)]
                 ELSE visitResource(entry.resource, acc))

WalkStart ==
    [threw |-> FALSE, warnings |-> <<>>, resources |-> 0, conditions |-> 0,
     namasteCodes |-> 0, icd11Codes |-> 0]

\* Mutation of verdict: a warning makes the bundle invalid.
verdictCountsWarnings(errors, warnings) == errors = <<>> /\ warnings = <<>>

verdict(errors, warnings) == errors = <<>>

\* Mutation of missingDualCoding: both counts must be zero.
missingDualCodingBothZero(conditions, namasteCount, icd11Count) ==
    conditions > 0 /\ (namasteCount = 0 /\ icd11Count = 0)

missingDualCoding(conditions, namasteCount, icd11Count) ==
    conditions > 0 /\ (namasteCount = 0 \/ icd11Count = 0)

validateFHIRBundle(bundle, auditStored) ==
    LET errors == structureErrors(bundle) IN
    IF ~auditStored THEN [threw |-> TRUE, report |-> NoReport]
    ELSE IF entryArrayMissing(bundle)
    THEN [threw |-> FALSE,
          report |-> [valid |-> FALSE, errors |-> Append(errors, EntryArrayError),
                      warnings |-> <<>>, summary |-> NoSummary]]
    ELSE LET walk == walkEntries(bundle.entry.items, WalkStart)
             warnings ==
                 IF missingDualCoding(walk.conditions, walk.namasteCodes, walk.icd11Codes)
                 THEN Append(walk.warnings, DualCodingWarning)
                 ELSE walk.warnings
         IN  IF walk.threw THEN [threw |-> TRUE, report |-> NoReport]
             ELSE [threw |-> FALSE,
                   report |-> [valid |-> verdict(errors, warnings),
                               errors |-> errors,
                               warnings |-> warnings,
                               summary |-> [present |-> TRUE,
                                            resources |-> walk.resources,
                                            conditions |-> walk.conditions,
                                            namasteCodes |-> walk.namasteCodes,
                                            icd11Codes |-> walk.icd11Codes]]]

-----------------------------------------------------------------------------
(* POST /api/bundle/validate                                                *)

SubmitBundle ==
    /\ vpc = "idle"
    /\ \E p \in Payloads :
        /\ payload' = p
        /\ IF p.kind = "nonobject"
           THEN /\ vpc' = "done"
                /\ vresp' = [status |-> 400, report |-> NoReport]
           ELSE /\ vpc' = "audit"
                /\ vresp' = NoValidateResponse
    /\ UNCHANGED <<translateVars, buildVars, searchVars, repoVars>>

\* storage.createAuditEvent settles; the rest of the validator and the
\* route's reply run without another await.
AuditReturns ==
    /\ vpc = "audit"
    /\ \E auditStored \in BOOLEAN :
        LET v == validateFHIRBundle(payload, auditStored)
        IN  vresp' = IF v.threw THEN [status |-> 500, report |-> NoReport]
                     ELSE [status |-> 200, report |-> v.report]
    /\ vpc' = "done"
    /\ UNCHANGED <<payload, translateVars, buildVars, searchVars, repoVars>>

\* z.enum of FHIRBundleSchema.type
BundleTypes ==
    {"document", "message", "transaction", "transaction-response", "batch",
     "batch-response", "history", "searchset", "collection"}

\* FHIRBundleSchema.parse throws a ZodError.  The schema's entry is an
\* optional array of objects; a null entry member counts as not an array.
bundleSchemaRejects(bundle) ==
    \/ bundle.kind # "object"
    \/ bundle.resourceType # "Bundle"
    \/ bundle.type \notin BundleTypes
    \/ bundle.entry.kind = "nonarray"
    \/ \E i \in 1..Len(bundle.entry.items) : bundle.entry.items[i].kind = "null"

ZodErrorMessage == "ZodError"

MissingResourceError(index) == <<"Entry", index, "Missing resource">>

RECURSIVE entryErrors(_, _)
entryErrors(entries, index) ==
    IF entries = <<>> THEN <<>>
    ELSE (IF Head(entries).resource.kind = "absent"
          THEN <<MissingResourceError(index)>> ELSE <<>>)
         \o entryErrors(Tail(entries), index + 1)

\* validateFHIRBundle of fhir.ts
fhirValidateFHIRBundle(bundle) ==
    IF bundleSchemaRejects(bundle)
    THEN [isValid |-> FALSE, errors |-> <<ZodErrorMessage>>]
    ELSE LET errors == entryErrors(bundle.entry.items, 0)
         IN  [isValid |-> errors = <<>>, errors |-> errors]

\* POST /fhir/Bundle/$validate: the handler has no await on I/O.
FhirValidate ==
    /\ vpc = "idle"
    /\ \E p \in Payloads :
        LET validation == fhirValidateFHIRBundle(p)
        IN  /\ payload' = p
            /\ vresp' = [status |-> IF validation.isValid THEN 200 ELSE 400,
                         report |-> [valid |-> validation.isValid,
                                     errors |-> validation.errors,
                                     warnings |-> <<>>, summary |-> NoSummary]]
    /\ vpc' = "fhirdone"
    /\ UNCHANGED <<translateVars, buildVars, searchVars, repoVars>>

FinishValidate ==
    /\ vpc \in {"done", "fhirdone"}
    /\ vpc' = "idle"
    /\ payload' = NoPayload
    /\ vresp' = NoValidateResponse
    /\ UNCHANGED <<translateVars, buildVars, searchVars, repoVars>>

InitValidate == TranslateIdle /\ ValidateIdle /\ BuildIdle /\ SearchIdle /\ RepoIdle

NextValidate == SubmitBundle \/ AuditReturns \/ FhirValidate \/ FinishValidate

SpecValidate == InitValidate /\ [][NextValidate]_vars

ValidateReport == vresp.report

ReportReturned == vpc = "done" /\ vresp.status = 200

\* C8: a returned report is valid exactly when its run produced no error;
\* warnings do not enter the verdict.
ValidVerdict ==
    ReportReturned => (ValidateReport.valid <=> ValidateReport.errors = <<>>)

ValidVerdictWitness ==
    /\ ReportReturned
    /\ ValidateReport.valid
    /\ ValidateReport.warnings # <<>>

\* C9 as stated: a bundle whose entry member is missing or not an array gets
\* an invalid report whose only error is the entry-array error.
EntryShortCircuitOnlyError ==
    (ReportReturned /\ payload.entry.kind # "array")
        => /\ ~ValidateReport.valid
           /\ ValidateReport.errors = <<EntryArrayError>>
           /\ ValidateReport.warnings = <<>>
           /\ ~ValidateReport.summary.present

\* C9 amended: such a bundle gets an invalid report with no warnings and no
\* summary, whose last error is the entry-array error; the errors before it
\* are the resourceType and type errors the bundle also earns, so the
\* entry-array error stands alone when resourceType and type are in order.
EntryShortCircuit ==
    (ReportReturned /\ payload.entry.kind # "array")
        => LET errors == ValidateReport.errors
           IN  /\ ~ValidateReport.valid
               /\ errors # <<>>
               /\ errors[Len(errors)] = EntryArrayError
               /\ \A i \in 1..(Len(errors) - 1) :
                      errors[i] \in {ResourceTypeError, BundleTypeError}
               /\ (payload.resourceType = "Bundle" /\ payload.type # "")
                      => errors = <<EntryArrayError>>
               /\ ValidateReport.warnings = <<>>
               /\ ~ValidateReport.summary.present

EntryShortCircuitWitness ==
    /\ ReportReturned
    /\ payload.entry.kind = "nonarray"
    /\ payload.resourceType = "Bundle"
    /\ payload.type # ""
    /\ ValidateReport.errors = <<EntryArrayError>>

\* C10: every payload that is a non-null object is answered with a report,
\* whatever its content and whether or not the audit write succeeded.
ValidateNeverThrows ==
    (vpc = "done" /\ payload.kind = "object") => vresp.status = 200

-----------------------------------------------------------------------------
(* Properties of the report after the per-entry walk.                       *)

RECURSIVE countOf(_, _)
countOf(seq, x) ==
    IF seq = <<>> THEN 0
    ELSE (IF Head(seq) = x THEN 1 ELSE 0) + countOf(Tail(seq), x)

ConditionOf(codings) ==
    [kind |-> "object",
     resource |-> [kind |-> "object", resourceType |-> "Condition",
                   code |-> [kind |-> "object",
                             coding |-> [kind |-> "array", items |-> codings]]]]

BundleOf(entries) ==
    [kind |-> "object", resourceType |-> "Bundle", type |-> "collection",
     entry |-> [kind |-> "array", items |-> entries]]

NamasteOnlyBundle == BundleOf(<<ConditionOf(<<NamasteCoding>>)>>)

\* C11: a report that went through the walk carries exactly one dual-coding
\* warning when it counted a Condition and counted no NAMASTE coding or no
\* ICD-11 coding, and none otherwise; the bundle of one Condition with only a
\* NAMASTE coding is valid with that single warning and summary 1/1/1/0.
DualCodingWarningRule ==
    (ReportReturned /\ ValidateReport.summary.present) =>
        LET sm == ValidateReport.summary
        IN  /\ countOf(ValidateReport.warnings, DualCodingWarning)
                 = IF sm.conditions > 0 /\ (sm.namasteCodes = 0 \/ sm.icd11Codes = 0)
                   THEN 1 ELSE 0
            /\ payload = NamasteOnlyBundle =>
                 /\ ValidateReport.valid
                 /\ ValidateReport.warnings = <<DualCodingWarning>>
                 /\ sm.resources = 1 /\ sm.conditions = 1
                 /\ sm.namasteCodes = 1 /\ sm.icd11Codes = 0

DualCodingWarningWitness ==
    /\ ReportReturned
    /\ payload = NamasteOnlyBundle
    /\ ValidateReport.warnings = <<DualCodingWarning>>

-----------------------------------------------------------------------------
(* FHIR builders (fhir.ts) and the problem list they are applied to.        *)

\* What generateUUID() and new Date() give during one run of a handler: the
\* i-th uuid of run r, and the time of run r.
Runs == {"r1", "r2"}

generateUUID(run, i) == <<"uuid", run, i>>

now(run) == <<"time", run>>

\* a || b on strings: "" stands for null, undefined and the empty string.
orElse(a, b) == IF a = "" THEN b ELSE a

StringCoding(system, code, display) ==
    [kind |-> "object", system |-> StringSystem(system),
     code |-> code, display |-> display]

\* Mutation of createFHIRCondition: the target coding is never appended.
createFHIRConditionNamasteOnly(patientRef, namasteCode, namasteDisplay, icd11Code, icd11Display, run, i) ==
    [kind |-> "object",
     resourceType |-> "Condition",
     id |-> generateUUID(run, i),
     clinicalStatus |-> "active",
     category |-> "problem-list-item",
     code |-> [kind |-> "object",
               coding |-> [kind |-> "array",
                           items |-> <<StringCoding(NamasteSystem, namasteCode,
                                                    namasteDisplay)>>]],
     subject |-> [reference |-> patientRef],
     recordedDate |-> now(run)]

createFHIRCondition(patientRef, namasteCode, namasteDisplay, icd11Code, icd11Display, run, i) ==
    LET namaste == <<StringCoding(NamasteSystem, namasteCode, namasteDisplay)>>
        coding == IF icd11Code # "" /\ icd11Display # ""
                  THEN Append(namaste, StringCoding(IcdSystem, icd11Code, icd11Display))
                  ELSE namaste
    IN  [kind |-> "object",
         resourceType |-> "Condition",
         id |-> generateUUID(run, i),
         clinicalStatus |-> "active",
         category |-> "problem-list-item",
         code |-> [kind |-> "object", coding |-> [kind |-> "array", items |-> coding]],
         subject |-> [reference |-> patientRef],
         recordedDate |-> now(run)]

\* Mutation of createFHIRBundle: total counts one entry too many.
createFHIRBundleTotalOff(type, entries, run) ==
    [kind |-> "object", resourceType |-> "Bundle", id |-> generateUUID(run, 0),
     type |-> type, timestamp |-> now(run), total |-> Len(entries) + 1,
     entry |-> [kind |-> "array",
                items |-> [i \in 1..Len(entries) |->
                              [kind |-> "object", resource |-> entries[i]]]]]

createFHIRBundle(type, entries, run) ==
    [kind |-> "object", resourceType |-> "Bundle", id |-> generateUUID(run, 0),
     type |-> type, timestamp |-> now(run), total |-> Len(entries),
     entry |-> [kind |-> "array",
                items |-> [i \in 1..Len(entries) |->
                              [kind |-> "object", resource |-> entries[i]]]]]

Users == {"alice", "bob"}

\* Bodies of POST /api/problems.
ProblemBodies ==
    { [patientId |-> "Patient/7", namasteCode |-> "AYU-DIG-001",
       namasteDisplay |-> "Agnimandya", icd11Code |-> "TM2-YM25",
       icd11Display |-> "Digestive system disorders"],
      [patientId |-> "Patient/7", namasteCode |-> "AYU-DIG-002",
       namasteDisplay |-> "Ajirna", icd11Code |-> "", icd11Display |-> ""],
      [patientId |-> "", namasteCode |-> "AYU-DIG-001",
       namasteDisplay |-> "Agnimandya", icd11Code |-> "TM2-YM25",
       icd11Display |-> ""],
      [patientId |-> "", namasteCode |-> "", namasteDisplay |-> "",
       icd11Code |-> "TM2-YM26", icd11Display |-> "Respiratory system disorders"] }

createProblemEntry(table, body, userId) ==
    Append(table,
        [patientId |-> orElse(body.patientId, "demo-patient"),
         namasteCode |-> body.namasteCode, namasteDisplay |-> body.namasteDisplay,
         icd11Code |-> body.icd11Code, icd11Display |-> body.icd11Display,
         createdBy |-> userId, createdAt |-> Len(table) + 1])

RECURSIVE reverse(_)
reverse(seq) == IF seq = <<>> THEN <<>> ELSE Append(reverse(Tail(seq)), Head(seq))

\* getProblemEntries(undefined, userId): WHERE created_by = userId
\* ORDER BY created_at DESC; created_at grows with every insert.
getProblemEntries(table, userId) ==
    reverse(SelectSeq(table, LAMBDA row : row.createdBy = userId))

exportConditions(problems, run) ==
    [i \in 1..Len(problems) |->
        createFHIRCondition(orElse(problems[i].patientId, "Patient/demo"),
                            problems[i].namasteCode, problems[i].namasteDisplay,
                            problems[i].icd11Code, problems[i].icd11Display,
                            run, i)]

\* POST /api/problems
CreateProblem ==
    /\ Len(problemEntries) < MaxProblems
    /\ \E body \in ProblemBodies, userId \in Users :
          problemEntries' = createProblemEntry(problemEntries, body, userId)
    /\ UNCHANGED <<bop, bin, bout, translateVars, validateVars, searchVars, repoVars>>

\* GET /api/problems/export/fhir
ExportProblems ==
    /\ \E userId \in Users, run \in Runs :
          LET problems == getProblemEntries(problemEntries, userId)
              conditions == exportConditions(problems, run)
          IN  /\ bop' = "export"
              /\ bin' = [userId |-> userId, problems |-> problems,
                         conditions |-> conditions]
              /\ bout' = createFHIRBundle("collection", conditions, run)
    /\ UNCHANGED <<problemEntries, translateVars, validateVars, searchVars, repoVars>>

\* The exported bundle is posted to /api/bundle/validate as it was received.
SubmitExported ==
    /\ vpc = "idle"
    /\ bop = "export"
    /\ payload' = bout
    /\ vpc' = "audit"
    /\ vresp' = NoValidateResponse
    /\ UNCHANGED <<translateVars, buildVars, searchVars, repoVars>>

InitExport == TranslateIdle /\ ValidateIdle /\ BuildIdle /\ SearchIdle /\ RepoIdle

NextExport ==
    \/ CreateProblem
    \/ ExportProblems
    \/ SubmitExported
    \/ AuditReturns
    \/ FinishValidate

SpecExport == InitExport /\ [][NextExport]_vars

DualCoded(problem) ==
    /\ problem.namasteCode # ""
    /\ problem.icd11Code # "" /\ problem.icd11Display # ""

\* C12: the bundle built from n problem entries that each carry a NAMASTE code
\* and a target code with display is reported valid by the validator, with no
\* error, no warning, namasteCodes = n and icd11Codes = n.
BuildThenValidate ==
    (/\ ReportReturned
     /\ bop = "export" /\ payload = bout
     /\ \A i \in 1..Len(bin.problems) : DualCoded(bin.problems[i])) =>
        /\ ValidateReport.valid
        /\ ValidateReport.errors = <<>>
        /\ ValidateReport.warnings = <<>>
        /\ ValidateReport.summary.present
        /\ ValidateReport.summary.resources = Len(bin.problems)
        /\ ValidateReport.summary.conditions = Len(bin.problems)
        /\ ValidateReport.summary.namasteCodes = Len(bin.problems)
        /\ ValidateReport.summary.icd11Codes = Len(bin.problems)

BuildThenValidateWitness ==
    /\ ReportReturned
    /\ bop = "export" /\ payload = bout
    /\ Len(bin.problems) = MaxProblems
    /\ \A i \in 1..Len(bin.problems) : DualCoded(bin.problems[i])
    /\ ValidateReport.summary.icd11Codes = MaxProblems

-----------------------------------------------------------------------------

\* The body is a JSON object that lacks what makes it a Bundle: resourceType
\* is not "Bundle", type is missing, or entry is missing or not an array.
Malformed(bundle) ==
    /\ bundle.kind = "object"
    /\ \/ bundle.resourceType # "Bundle"
       \/ bundle.type = ""
       \/ bundle.entry.kind # "array"

\* C13: a malformed bundle is answered by either validate route with status
\* 200 and a report whose validity flag is false.
MalformedIsSuccess ==
    (vpc \in {"done", "fhirdone"} /\ Malformed(payload)) =>
        /\ vresp.status = 200
        /\ ~vresp.report.valid

-----------------------------------------------------------------------------

\* The match list a completed $translate request handed to
\* createFHIRTranslationResult.
matchesOf(s) ==
    IF Len(found[s]) > 0 THEN translationResultsOf(found[s])
    ELSE aiTranslationResultsOf(aiMappings[s])

\* C14: the Parameters resource built from a match list M starts with the
\* result parameter, whose valueBoolean says whether M is non-empty, followed
\* by one match parameter per element of M, in the order of M, carrying its
\* equivalence, system, code and display; for an empty M nothing follows.
TranslationParametersShape ==
    \A s \in Slots :
        (IsTranslate(s) /\ pc[s] = "done" /\ resp[s].status = 200) =>
            LET M == matchesOf(s)
                P == resp[s].body.parameter
            IN  /\ resp[s].body.resourceType = "Parameters"
                /\ Len(P) = 1 + Len(M)
                /\ P[1] = [name |-> "result", valueBoolean |-> (Len(M) > 0)]
                /\ \A i \in 1..Len(M) :
                    /\ P[i + 1].name = "match"
                    /\ Len(P[i + 1].part) = 2
                    /\ P[i + 1].part[1] =
                           [name |-> "equivalence", valueCode |-> M[i].equivalence]
                    /\ P[i + 1].part[2].name = "concept"
                    /\ P[i + 1].part[2].valueCoding =
                           [system |-> M[i].system, code |-> M[i].code,
                            display |-> M[i].display]

TranslationParametersShapeWitness ==
    \E s \in Slots :
        /\ IsTranslate(s) /\ pc[s] = "done" /\ resp[s].status = 200
        /\ Len(matchesOf(s)) = 2
        /\ matchesOf(s)[1].code # matchesOf(s)[2].code
        /\ Len(resp[s].body.parameter) = 3

-----------------------------------------------------------------------------
(* The builders applied to inputs of every shape.                           *)

\* A url as the list url.split('/') gives.
Urls ==
    { <<"">>,
      <<"http:", "", "namaste.gov.in", "fhir", "ValueSet", "ayurveda">> }

Concepts ==
    { [system |-> NamasteSystem, code |-> "AYU-DIG-001", display |-> "Agnimandya",
       category |-> "AYU"],
      [system |-> NamasteSystem, code |-> "UNA-DIG-001", display |-> "Su-e-Hazm",
       category |-> "UNA"],
      [system |-> IcdSystem, code |-> "TM2-YM25", display |-> "", category |-> ""] }

\* Mutation of createFHIRValueSetExpansion: total is a page size, not the
\* length of the list.
createFHIRValueSetExpansionFixedTotal(url, concepts, run) ==
    [resourceType |-> "ValueSet",
     id |-> <<url[Len(url)], "-expanded">>,
     url |-> url,
     status |-> "active",
     expansion |-> [identifier |-> <<"urn:uuid:", generateUUID(run, 0)>>,
                    timestamp |-> now(run),
                    total |-> 1,
                    contains |-> [i \in 1..Len(concepts) |->
                                    [system |-> concepts[i].system,
                                     code |-> concepts[i].code,
                                     display |-> concepts[i].display]]]]

createFHIRValueSetExpansion(url, concepts, run) ==
    [resourceType |-> "ValueSet",
     id |-> <<url[Len(url)], "-expanded">>,
     url |-> url,
     status |-> "active",
     expansion |-> [identifier |-> <<"urn:uuid:", generateUUID(run, 0)>>,
                    timestamp |-> now(run),
                    total |-> Len(concepts),
                    contains |-> [i \in 1..Len(concepts) |->
                                    [system |-> concepts[i].system,
                                     code |-> concepts[i].code,
                                     display |-> concepts[i].display]]]]

BuildExpansion ==
    /\ \E url \in Urls, concepts \in SeqsUpTo(Concepts, MaxConcepts), run \in Runs :
          /\ bop' = "expansion"
          /\ bin' = [url |-> url, concepts |-> concepts]
          /\ bout' = createFHIRValueSetExpansion(url, concepts, run)
    /\ UNCHANGED <<problemEntries, translateVars, validateVars, searchVars, repoVars>>

BuildCondition ==
    /\ \E patientRef \in {"Patient/demo", "Patient/7"},
          namasteCode \in {"", "AYU-DIG-001"},
          namasteDisplay \in {"", "Agnimandya"},
          icd11Code \in {"", "TM2-YM25"},
          icd11Display \in {"", "Digestive system disorders"},
          run \in Runs :
          /\ bop' = "condition"
          /\ bin' = [patientRef |-> patientRef, namasteCode |-> namasteCode,
                     namasteDisplay |-> namasteDisplay, icd11Code |-> icd11Code,
                     icd11Display |-> icd11Display]
          /\ bout' = createFHIRCondition(patientRef, namasteCode, namasteDisplay,
                                         icd11Code, icd11Display, run, 1)
    /\ UNCHANGED <<problemEntries, translateVars, validateVars, searchVars, repoVars>>

InitBuild == TranslateIdle /\ ValidateIdle /\ BuildIdle /\ SearchIdle /\ RepoIdle

NextBuild == BuildExpansion \/ BuildCondition

SpecBuild == InitBuild /\ [][NextBuild]_vars

tripleOf(concept) ==
    [system |-> concept.system, code |-> concept.code, display |-> concept.display]

ExpansionOfList ==
    bop = "expansion" =>
        /\ bout.status = "active"
        /\ bout.expansion.total = Len(bin.concepts)
        /\ Len(bout.expansion.contains) = Len(bin.concepts)
        /\ \A i \in 1..Len(bin.concepts) :
               bout.expansion.contains[i] = tripleOf(bin.concepts[i])

SameListSameExpansion ==
    (bop = "expansion" /\ bop' = "expansion" /\ bin'.concepts = bin.concepts) =>
        /\ bout'.expansion.contains = bout.expansion.contains
        /\ bout'.expansion.total = bout.expansion.total
        /\ bout'.status = bout.status

\* C15: the expansion built from a concept list C has status active, total
\* |C| and contains equal to the (system, code, display) triples of C in the
\* order of C; two calls with the same C give the same contains and total.
ValueSetExpansionFunction == []ExpansionOfList /\ [][SameListSameExpansion]_vars

ValueSetExpansionFunctionWitness ==
    /\ bop = "expansion"
    /\ Len(bin.concepts) = MaxConcepts
    /\ bin.concepts[1] # bin.concepts[2]
    /\ bout.expansion.total = MaxConcepts

\* C16: the Condition built has the NAMASTE coding first; its coding has two
\* entries, the target coding second, whenever a target code is given, with
\* or without a target display, and one entry when no target code is given.
ConditionCoding ==
    bop = "condition" =>
        LET coding == bout.code.coding.items
        IN  /\ Len(coding) >= 1
            /\ coding[1].system = StringSystem(NamasteSystem)
            /\ coding[1].code = bin.namasteCode
            /\ Len(coding) = IF bin.icd11Code # "" THEN 2 ELSE 1
            /\ bin.icd11Code # "" => coding[2].code = bin.icd11Code

-----------------------------------------------------------------------------

\* A step of the export handler.
ExportStep == bop' = "export" /\ UNCHANGED <<problemEntries, validateVars>>

ExportedBundleShape ==
    ExportStep =>
        LET R == bin'.conditions
            rows == bin'.problems
            stored == {k \in 1..Len(problemEntries) :
                          problemEntries[k].createdBy = bin'.userId}
        IN  /\ bout'.resourceType = "Bundle"
            /\ bout'.type = "collection"
            /\ bout'.total = Len(R)
            /\ Len(bout'.entry.items) = Len(R)
            /\ \A i \in 1..Len(R) : bout'.entry.items[i].resource = R[i]
            /\ Len(R) = Cardinality(stored)
            /\ Len(rows) = Len(R)
            /\ \A i \in 1..Len(R) :
                /\ rows[i].createdBy = bin'.userId
                /\ R[i].resourceType = "Condition"
                /\ R[i].code.coding.items[1].code = rows[i].namasteCode
                /\ R[i].subject.reference = rows[i].patientId
            /\ \A i, j \in 1..Len(rows) :
                   i < j => rows[i].createdAt > rows[j].createdAt

\* C17: the bundle built from a resource list R has the given type, total |R|
\* and R[i] as the resource of its i-th entry; the problem-list export returns
\* a collection Bundle with one Condition per stored problem entry of the
\* user, in the order the repository returns them.
BundleOfProblems == [][ExportedBundleShape]_vars

BundleOfProblemsWitness ==
    /\ bop = "export"
    /\ bout.total = 1
    /\ Len(problemEntries) = 2
    /\ problemEntries[1].createdBy # bin.userId
    /\ bin.problems[1].createdAt = 2

-----------------------------------------------------------------------------
(* Terminology search.  Texts are sequences of characters, so that letter   *)
(* case and SQL wildcards are values the search can meet.                   *)

UpperCase ==
    [c \in {"A", "D", "K", "L", "T"} |->
        CASE c = "A" -> "a" [] c = "D" -> "d" [] c = "K" -> "k"
          [] c = "L" -> "l" [] c = "T" -> "t"]

toLowerCase(text) ==
    [i \in 1..Len(text) |->
        IF text[i] \in DOMAIN UpperCase THEN UpperCase[text[i]] ELSE text[i]]

\* text LIKE '%' || q || '%' in PostgreSQL: case-sensitive, and an underscore
\* in q stands for any one character.  NULL LIKE ... is not true.
sqlLike(text, q) ==
    \E offset \in 0..(Len(text) - Len(q)) :
        \A i \in 1..Len(q) : q[i] = "_" \/ q[i] = text[offset + i]

Queries == {<<"a", "g", "n", "i">>, <<"A", "g", "n", "i">>, <<"k", "a", "s", "a">>, <<"d", "i", "g">>, <<"g", "_", "i">>, <<"z", "z">>}

\* request.systems: <<>> stands for a missing or empty array.
SystemFilters ==
    {<<>>, <<"NAMASTE">>, <<"ICD-11-TM2">>, <<"NAMASTE", "ICD-11-TM2">>, <<"OTHER">>}

inFilter(systems, system) == \E i \in 1..Len(systems) : systems[i] = system

\* MemStorage.searchTerminologyCodes
searchTerminologyCodes(query, systems) ==
    LET searchTerm == toLowerCase(query)
    IN  SelectSeq(tcodes, LAMBDA term :
            /\ ~(Len(systems) > 0 /\ ~inFilter(systems, term.system))
            /\ \/ includes(toLowerCase(term.display), searchTerm)
               \/ includes(toLowerCase(term.code), searchTerm)
               \/ (term.definition # NoText
                     /\ includes(toLowerCase(term.definition), searchTerm)))

\* Table namaste_codes (YogaVision), rows in insertion order.
namasteCatalog ==
    << [code |-> <<"A", "2">>, display |-> <<"K", "a", "s", "a">>, definition |-> NoText,
        system |-> NamasteSystem, category |-> "AYU"],
       [code |-> <<"A", "1">>, display |-> <<"A", "g", "n", "i">>, definition |-> <<"w", "e", "a", "k", " ", "a", "g", "n", "i">>,
        system |-> NamasteSystem, category |-> "AYU"] >>

\* Table icd11_codes (YogaVision).
icd11Catalog ==
    << [code |-> <<"T", "1">>, display |-> <<"D", "i", "g", "e", "s", "t", "i", "v", "e">>, definition |-> <<"a", "g", "n", "i">>,
        system |-> IcdSystem, module |-> "TM2"] >>

DefaultLimit == 10

\* ORDER BY display ASC on texts: the first differing character decides, a
\* prefix sorts first; characters compare by their code point.
CodePoint ==
    [c \in {" ", "1", "2", "3", "A", "D", "K", "L", "T", "_", "a", "d", "e", "g",
            "i", "k", "n", "s", "t", "u", "v", "w", "z"} |->
        CASE c = " " -> 32 [] c = "1" -> 49 [] c = "2" -> 50 [] c = "3" -> 51
          [] c = "A" -> 65 [] c = "D" -> 68 [] c = "K" -> 75 [] c = "L" -> 76
          [] c = "T" -> 84 [] c = "_" -> 95 [] c = "a" -> 97 [] c = "d" -> 100
          [] c = "e" -> 101 [] c = "g" -> 103 [] c = "i" -> 105 [] c = "k" -> 107
          [] c = "n" -> 110 [] c = "s" -> 115 [] c = "t" -> 116 [] c = "u" -> 117
          [] c = "v" -> 118 [] c = "w" -> 119 [] c = "z" -> 122]

RECURSIVE textBefore(_, _)
textBefore(a, b) ==
    IF a = <<>> THEN b # <<>>
    ELSE IF b = <<>> THEN FALSE
    ELSE IF Head(a) = Head(b) THEN textBefore(Tail(a), Tail(b))
    ELSE CodePoint[Head(a)] < CodePoint[Head(b)]

RECURSIVE orderByDisplay(_)
orderByDisplay(rows) ==
    IF rows = <<>> THEN <<>>
    ELSE LET first == CHOOSE i \in 1..Len(rows) :
                          \A j \in 1..Len(rows) :
                              j # i => \/ textBefore(rows[i].display, rows[j].display)
                                       \/ (rows[i].display = rows[j].display /\ i < j)
         IN  <<rows[first]>> \o orderByDisplay(RemoveAt(rows, first))

limitTo(rows, limit) == SubSeq(rows, 1, IF Len(rows) < limit THEN Len(rows) ELSE limit)

likeAnyColumn(row, query) ==
    \/ sqlLike(row.display, query)
    \/ sqlLike(row.code, query)
    \/ sqlLike(row.definition, query)

\* DatabaseStorage.getNamasteCodes
getNamasteCodes(query, limit) ==
    limitTo(orderByDisplay(
                IF query # NoText
                THEN SelectSeq(namasteCatalog, LAMBDA row : likeAnyColumn(row, query))
                ELSE namasteCatalog),
            limit)

\* DatabaseStorage.getIcd11Codes: the query condition and the module
\* condition are joined with or(...).
getIcd11Codes(query, module, limit) ==
    limitTo(orderByDisplay(
                SelectSeq(icd11Catalog, LAMBDA row :
                    \/ (query # NoText /\ likeAnyColumn(row, query))
                    \/ (module # "" /\ row.module = module)
                    \/ (query = NoText /\ module = ""))),
            limit)

-----------------------------------------------------------------------------
(* POST /api/search of the terminology service: TerminologyService.         *)
(* searchTerminologies over MemStorage, with the suggestion provider asked  *)
(* for every NAMASTE row that has no stored mapping.                        *)

\* MemStorage.getMappingsForCode
getMappingsForCode(code, system) ==
    SelectSeq(serviceMappings, LAMBDA mapping :
        mapping.sourceCode = code /\ mapping.sourceSystem = system)

\* One element of the provider's "mappings" array; <<>> is a null element.
ProviderMappings ==
    { <<>>,
      <<[targetCode |-> "TM2-XX9", equivalence |-> "wider", confidence |-> "80%"]>> }

\* The ways the provider call fails inside getMappingSuggestions: the call
\* rejects, the text is empty, the text is not JSON, the JSON has no
\* "mappings" array.
FailureKinds == {"throws", "empty", "malformed", "nomappings"}

\* What ai.models.generateContent can settle with.
MappingReplies ==
    [kind : FailureKinds, mappings : {<<>>}]
      \cup [kind : {"json"}, mappings : SeqsUpTo(ProviderMappings, 2)]

\* The texts the prompt template interpolates; the fixed text of the template
\* holds none of the words getFallbackMappings looks for.
promptOf(namasteCode) ==
    <<namasteCode.code, namasteCode.display, namasteCode.definition>>

promptIncludes(prompt, word) ==
    \E i \in 1..Len(prompt) : includes(toLowerCase(prompt[i]), word)

FallbackMapping(targetCode, equivalence, confidence) ==
    [mappings |-> << <<[targetCode |-> targetCode, equivalence |-> equivalence,
                        confidence |-> confidence]>> >>]

\* GeminiService.getFallbackMappings
getFallbackMappings(prompt) ==
    IF \/ promptIncludes(prompt, <<"d", "i", "g", "e", "s", "t", "i", "v", "e">>)
       \/ promptIncludes(prompt, <<"a", "g", "n", "i">>)
    THEN FallbackMapping("TM2-DA01", "equivalent", "75%")
    ELSE IF \/ promptIncludes(prompt, <<"r", "e", "s", "p", "i", "r", "a", "t", "o", "r", "y">>)
            \/ promptIncludes(prompt, <<"l", "u", "n", "g">>)
    THEN FallbackMapping("TM2-RE01", "equivalent", "70%")
    ELSE IF \/ promptIncludes(prompt, <<"c", "a", "r", "d", "i", "a", "c">>)
            \/ promptIncludes(prompt, <<"h", "e", "a", "r", "t">>)
    THEN FallbackMapping("TM2-HE01", "equivalent", "70%")
    ELSE FallbackMapping("TM2-GEN01", "inexact", "50%")

\* GeminiService.getMappingSuggestions: every failure inside the try block
\* is answered with the fallback mappings.
getMappingSuggestions(prompt, reply) ==
    IF reply.kind = "json" THEN [mappings |-> reply.mappings]
    ELSE getFallbackMappings(prompt)

\* TerminologyService.getAIMappingSuggestions: reading a member of a null
\* element throws inside the try block, and the catch answers [].
getAIMappingSuggestions(namasteCode, reply, run) ==
    LET aiResponse == getMappingSuggestions(promptOf(namasteCode), reply)
    IN  IF \E i \in 1..Len(aiResponse.mappings) : aiResponse.mappings[i] = <<>>
        THEN <<>>
        ELSE [i \in 1..Len(aiResponse.mappings) |->
                 [id |-> <<"ai", run, i>>,
                  sourceCode |-> namasteCode.code,
                  sourceSystem |-> namasteCode.system,
                  targetCode |-> aiResponse.mappings[i][1].targetCode,
                  targetSystem |-> "ICD-11-TM2",
                  equivalence |-> aiResponse.mappings[i][1].equivalence,
                  confidence |-> aiResponse.mappings[i][1].confidence]]

\* POST /api/search: the body is read and a missing query is answered 400.
ServiceSearchStart ==
    /\ spc = "idle"
    /\ \E query \in Queries \cup {NoText}, systems \in SystemFilters,
          includeSuggestions \in BOOLEAN :
          /\ sreq' = [route |-> "service", query |-> query, systems |-> systems,
                      includeSuggestions |-> includeSuggestions, includeIcd |-> FALSE,
                      limit |-> 0]
          /\ IF query = NoText
             THEN /\ sresp' = [status |-> 400, body |-> [error |-> "Query is required"]]
                  /\ spc' = "done"
             ELSE /\ spc' = "audit"
                  /\ UNCHANGED sresp
    /\ UNCHANGED <<scodes, scursor, sresults, sreplies>>
    /\ UNCHANGED <<translateVars, validateVars, buildVars, repoVars>>

\* searchTerminologies: the audit write settles; then the repository is read.
ServiceAuditReturns ==
    /\ spc = "audit"
    /\ sreq.route = "service"
    /\ \E stored \in BOOLEAN :
          IF stored
          THEN /\ scodes' = searchTerminologyCodes(sreq.query, sreq.systems)
               /\ scursor' = 1
               /\ spc' = "items"
               /\ UNCHANGED sresp
          ELSE /\ sresp' = [status |-> 500, body |-> [error |-> "Internal server error"]]
               /\ spc' = "done"
               /\ UNCHANGED <<scodes, scursor>>
    /\ UNCHANGED <<sreq, sresults, sreplies>>
    /\ UNCHANGED <<translateVars, validateVars, buildVars, repoVars>>

\* Mutation of ServiceItem: a row whose provider call failed is left out of
\* the results.
ServiceItemDropsFailed ==
    /\ spc = "items"
    /\ scursor <= Len(scodes)
    /\ LET code == scodes[scursor]
           mappings == getMappingsForCode(code.code, code.system)
           row(suggested) ==
               [code |-> code.code, display |-> code.display,
                definition |-> code.definition, system |-> code.system,
                mappings |-> mappings \o suggested]
       IN  IF code.system = "NAMASTE" /\ sreq.includeSuggestions /\ Len(mappings) = 0
           THEN \E reply \in MappingReplies, run \in Runs :
                    /\ sresults' = IF reply.kind \in FailureKinds THEN sresults
                                   ELSE Append(sresults,
                                            row(getAIMappingSuggestions(code, reply, run)))
                    /\ sreplies' = Append(sreplies, reply.kind)
           ELSE /\ sresults' = Append(sresults, row(<<>>))
                /\ sreplies' = Append(sreplies, "notasked")
    /\ scursor' = scursor + 1
    /\ UNCHANGED <<spc, sreq, scodes, sresp>>
    /\ UNCHANGED <<translateVars, validateVars, buildVars, repoVars>>

\* Mutation of ServiceItem: includeSuggestions is not consulted.
ServiceItemAlwaysAsks ==
    /\ spc = "items"
    /\ scursor <= Len(scodes)
    /\ LET code == scodes[scursor]
           mappings == getMappingsForCode(code.code, code.system)
           row(suggested) ==
               [code |-> code.code, display |-> code.display,
                definition |-> code.definition, system |-> code.system,
                mappings |-> mappings \o suggested]
       IN  IF code.system = "NAMASTE" /\ Len(mappings) = 0
           THEN \E reply \in MappingReplies, run \in Runs :
                    /\ sresults' = Append(sresults,
                                       row(getAIMappingSuggestions(code, reply, run)))
                    /\ sreplies' = Append(sreplies, reply.kind)
           ELSE /\ sresults' = Append(sresults, row(<<>>))
                /\ sreplies' = Append(sreplies, "notasked")
    /\ scursor' = scursor + 1
    /\ UNCHANGED <<spc, sreq, scodes, sresp>>
    /\ UNCHANGED <<translateVars, validateVars, buildVars, repoVars>>

\* One turn of the loop over codes.
ServiceItem ==
    /\ spc = "items"
    /\ scursor <= Len(scodes)
    /\ LET code == scodes[scursor]
           mappings == getMappingsForCode(code.code, code.system)
           row(suggested) ==
               [code |-> code.code, display |-> code.display,
                definition |-> code.definition, system |-> code.system,
                mappings |-> mappings \o suggested]
       IN  IF code.system = "NAMASTE" /\ sreq.includeSuggestions /\ Len(mappings) = 0
           THEN \E reply \in MappingReplies, run \in Runs :
                    /\ sresults' = Append(sresults,
                                       row(getAIMappingSuggestions(code, reply, run)))
                    /\ sreplies' = Append(sreplies, reply.kind)
           ELSE /\ sresults' = Append(sresults, row(<<>>))
                /\ sreplies' = Append(sreplies, "notasked")
    /\ scursor' = scursor + 1
    /\ UNCHANGED <<spc, sreq, scodes, sresp>>
    /\ UNCHANGED <<translateVars, validateVars, buildVars, repoVars>>

\* The loop is over: res.json({ results }).
ServiceRespond ==
    /\ spc = "items"
    /\ scursor > Len(scodes)
    /\ sresp' = [status |-> 200, body |-> [results |-> sresults]]
    /\ spc' = "done"
    /\ UNCHANGED <<sreq, scodes, scursor, sresults, sreplies>>
    /\ UNCHANGED <<translateVars, validateVars, buildVars, repoVars>>

-----------------------------------------------------------------------------
(* GET /api/search of YogaVision: getNamasteCodes, optionally getIcd11Codes, *)
(* then enhanceTerminologySearch.                                           *)

Limits == {1, DefaultLimit}

namasteResult(code) ==
    [code |-> code.code, display |-> code.display, definition |-> code.definition,
     system |-> code.system, category |-> code.category, type |-> "namaste"]

icd11Result(code) ==
    [code |-> code.code, display |-> code.display, definition |-> code.definition,
     system |-> code.system, category |-> code.module, type |-> "icd11"]

namasteResults(codes) == [i \in 1..Len(codes) |-> namasteResult(codes[i])]

icd11Results(codes) == [i \in 1..Len(codes) |-> icd11Result(codes[i])]

\* A row the provider sent back with contextual information added.
annotated(row) ==
    [code |-> row.code, display |-> row.display, definition |-> row.definition,
     system |-> row.system, category |-> row.category, type |-> row.type,
     context |-> "relevant"]

annotatedRows(rows) == [i \in 1..Len(rows) |-> annotated(rows[i])]

\* What the enhancement call can settle with: the call rejects, the text is
\* empty, the text is not JSON, the JSON has no "results" member, or it has
\* one; the member's value is whatever the provider wrote.
EnhanceReplies(searchResults) ==
    [kind : {"throws", "empty", "malformed", "noresults"}, results : {<<>>}]
      \cup [kind : {"json"},
            results : { annotatedRows(reverse(searchResults)),
                        annotatedRows(searchResults),
                        IF searchResults = <<>> THEN <<>> ELSE Tail(searchResults),
                        <<>> }]

\* enhanceTerminologySearch: data.results || searchResults; an array, empty
\* or not, is truthy.
enhanceTerminologySearch(query, searchResults, reply) ==
    IF reply.kind = "json" THEN reply.results ELSE searchResults

\* GET /api/search up to the enhancement call.  auditLog only writes to the
\* console; the two repository reads are of tables no handler here writes.
YogaSearchStart ==
    /\ spc = "idle"
    /\ \E q \in Queries \cup {NoText}, include_icd \in BOOLEAN, limit \in Limits :
          /\ sreq' = [route |-> "yoga", query |-> q, systems |-> <<>>,
                      includeSuggestions |-> FALSE, includeIcd |-> include_icd,
                      limit |-> limit]
          /\ IF q = NoText
             THEN /\ sresp' = [status |-> 400,
                               body |-> [error |-> "Query parameter 'q' is required"]]
                  /\ spc' = "done"
                  /\ UNCHANGED scodes
             ELSE /\ scodes' =
                        namasteResults(getNamasteCodes(q, limit))
                          \o (IF include_icd
                              THEN icd11Results(getIcd11Codes(q, "TM2", limit))
                              ELSE <<>>)
                  /\ spc' = "enhance"
                  /\ UNCHANGED sresp
    /\ UNCHANGED <<scursor, sresults, sreplies>>
    /\ UNCHANGED <<translateVars, validateVars, buildVars, repoVars>>

\* The enhancement call settles and the response is sent.
EnhanceReturns ==
    /\ spc = "enhance"
    /\ \E reply \in EnhanceReplies(scodes) :
          LET results == enhanceTerminologySearch(sreq.query, scodes, reply)
          IN  /\ sresults' = results
              /\ sreplies' = <<reply.kind>>
              /\ sresp' = [status |-> 200,
                           body |-> [query |-> sreq.query, total |-> Len(results),
                                     results |-> results]]
    /\ spc' = "done"
    /\ UNCHANGED <<sreq, scodes, scursor>>
    /\ UNCHANGED <<translateVars, validateVars, buildVars, repoVars>>

\* The response is out; the next request finds the handlers idle.
FinishSearch ==
    /\ spc = "done"
    /\ spc' = "idle"
    /\ sreq' = NoSearchRequest
    /\ scodes' = <<>>
    /\ scursor' = 0
    /\ sresults' = <<>>
    /\ sreplies' = <<>>
    /\ sresp' = NoSearchResponse
    /\ UNCHANGED <<translateVars, validateVars, buildVars, repoVars>>

\* The rows a search reads: the service's one table, or YogaVision's NAMASTE
\* table followed by its ICD-11 table when include_icd is set.
storedCodes ==
    IF sreq.route = "service" THEN tcodes
    ELSE namasteCatalog \o (IF sreq.includeIcd THEN icd11Catalog ELSE <<>>)

InitSearch == TranslateIdle /\ ValidateIdle /\ BuildIdle /\ SearchIdle /\ RepoIdle

NextSearch ==
    \/ ServiceSearchStart
    \/ ServiceAuditReturns
    \/ ServiceItem
    \/ ServiceRespond
    \/ YogaSearchStart
    \/ EnhanceReturns
    \/ FinishSearch

SpecSearch == InitSearch /\ [][NextSearch]_vars

-----------------------------------------------------------------------------
(* Properties of search.                                                    *)

RepositoryAnswered == spc \in {"items", "enhance"}

containsQuery(row, q) ==
    \/ includes(toLowerCase(row.display), toLowerCase(q))
    \/ includes(toLowerCase(row.code), toLowerCase(q))
    \/ (row.definition # NoText /\ includes(toLowerCase(row.definition), toLowerCase(q)))

\* Positions of the stored rows a search for sreq.query should return.
wantedRows ==
    {j \in 1..Len(storedCodes) :
        /\ sreq.systems = <<>> \/ inFilter(sreq.systems, storedCodes[j].system)
        /\ containsQuery(storedCodes[j], sreq.query)}

\* C18: once the repository has answered a search, the rows it returned are
\* exactly the stored codes whose system is in the filter (any system when
\* there is no filter) and whose display, code or definition contains the
\* query case-insensitively; a row limit may only cut the list when more
\* rows match than the limit allows.
SearchMatchingAndFilter ==
    RepositoryAnswered =>
        /\ \A i \in 1..Len(scodes) :
              \E j \in wantedRows :
                  /\ storedCodes[j].code = scodes[i].code
                  /\ storedCodes[j].system = scodes[i].system
        /\ Len(scodes) <= Cardinality(wantedRows)
        /\ (sreq.route = "service" \/ Cardinality(wantedRows) <= sreq.limit) =>
              \A j \in wantedRows :
                  \E i \in 1..Len(scodes) : scodes[i].code = storedCodes[j].code

ServiceSearch == sreq.route = "service"

FallbackTargets == {"TM2-DA01", "TM2-RE01", "TM2-HE01", "TM2-GEN01"}

\* Every row built so far stands for the repository row at its position.
OneRowPerCode ==
    /\ Len(sresults) = Len(sreplies)
    /\ spc = "items" => Len(sresults) = scursor - 1
    /\ \A i \in 1..Len(sresults) :
          /\ sresults[i].code = scodes[i].code
          /\ sresults[i].system = scodes[i].system

\* Once the repository has answered, the search is answered 200 with all rows.
SearchNotFailed ==
    (spc = "done" /\ scursor > 0) =>
        /\ sresp.status = 200
        /\ sresp.body.results = sresults
        /\ Len(sresp.body.results) = Len(scodes)

\* C19 as stated: a Suggestion Provider failure on an item yields zero
\* suggestions for that item and never fails the search, and the result list
\* has exactly one row per code the repository returned, in repository order.
ProviderFailureZeroSuggestions ==
    ServiceSearch =>
        /\ OneRowPerCode
        /\ SearchNotFailed
        /\ \A i \in 1..Len(sresults) :
              sreplies[i] \in FailureKinds => sresults[i].mappings = <<>>

\* C19: a Suggestion Provider failure on an item yields at most the one
\* pattern-keyed fallback suggestion for that item and never fails the
\* search, and the result list has exactly one row per code the repository
\* returned, in repository order.
SearchSurvivesProviderFailure ==
    ServiceSearch =>
        /\ OneRowPerCode
        /\ SearchNotFailed
        /\ \A i \in 1..Len(sresults) :
              sreplies[i] \in FailureKinds =>
                  /\ Len(sresults[i].mappings) <= 1
                  /\ \A k \in 1..Len(sresults[i].mappings) :
                        /\ sresults[i].mappings[k].targetCode \in FallbackTargets
                        /\ sresults[i].mappings[k].sourceCode = scodes[i].code

\* A search answered 200 with two rows, the provider having failed on the
\* first and answered on the second.
SearchSurvivesProviderFailureWitness ==
    /\ ServiceSearch
    /\ spc = "done"
    /\ sresp.status = 200
    /\ Len(sresp.body.results) = 2
    /\ sreplies[1] = "throws"
    /\ Len(sresp.body.results[1].mappings) = 1
    /\ sreplies[2] = "json"

YogaSearchAnswered == sreq.route = "yoga" /\ spc = "done" /\ sresp.status = 200

\* C20: when the enhancement provider fails, the search returns the
\* pre-enhancement rows in unchanged order; when it succeeds, every
\* pre-enhancement row is still among the rows returned.
EnhancementAdditive ==
    YogaSearchAnswered =>
        /\ sreplies[1] \in {"throws", "empty", "malformed"} =>
              sresp.body.results = scodes
        /\ \A i \in 1..Len(scodes) :
              \E k \in 1..Len(sresp.body.results) :
                  /\ sresp.body.results[k].code = scodes[i].code
                  /\ sresp.body.results[k].system = scodes[i].system

-----------------------------------------------------------------------------
(* Further properties of $translate and mapping-suggest.                    *)

\* C23: every row the lookup of a $translate request returned is a concept
\* mapping whose sourceCode is the requested source code.
LookupSelectsBySourceCode ==
    \A s \in Slots :
        IsTranslate(s) =>
            \A i \in 1..Len(found[s]) : found[s][i].sourceCode = req[s].code

IsSuggest(s) == req[s].kind = "suggest"

\* C24: a mapping-suggest request whose provider call returned suggestions
\* is answered 200 with the full suggestion list, whichever of its inserts
\* failed.
PersistenceFailureIsolated ==
    \A s \in Slots :
        (IsSuggest(s) /\ pc[s] = "done" /\ lastReply[s] = "json") =>
            /\ resp[s].status = 200
            /\ resp[s].body = suggestResponse(req[s], aiMappings[s])

\* The only request so far was a mapping-suggest with two suggestions; the
\* insert of the first failed, the second was still attempted and stored,
\* and the response holds both.
PersistenceFailureIsolatedWitness ==
    \E s \in Slots :
        /\ IsSuggest(s) /\ pc[s] = "done" /\ nreq = 1
        /\ Len(aiMappings[s]) = 2
        /\ Len(conceptMappings) = Len(SeedMappings) + 1
        /\ conceptMappings[Len(conceptMappings)].targetCode = aiMappings[s][2].targetCode
        /\ resp[s].status = 200
        /\ Len(resp[s].body.mappings) = 2

IdentifiesNamaste(system) == includes(system, <<"namaste", "gov", "in">>)

TargetSystemMatches ==
    \A s \in Slots :
        (IsTranslate(s) /\ pc[s] = "done" /\ resp[s].status = 200) =>
            \A i \in 2..Len(resp[s].body.parameter) :
                resp[s].body.parameter[i].part[2].valueCoding.system = req[s].target

-----------------------------------------------------------------------------
(* Further properties of the validator's walk.                              *)

WalkReported == ReportReturned /\ payload.entry.kind = "array"

BundleEntries == payload.entry.items

\* Positions <<e, c>> of the codings that sit inside Condition resources.
conditionCodings ==
    {ec \in (1..Len(BundleEntries)) \X (1..2) :
        LET resource == BundleEntries[ec[1]].resource
        IN  /\ resource.kind = "object"
            /\ resource.resourceType = "Condition"
            /\ resource.code.kind = "object"
            /\ resource.code.coding.kind = "array"
            /\ ec[2] <= Len(resource.code.coding.items)}

codingAt(ec) == BundleEntries[ec[1]].resource.code.coding.items[ec[2]]

uriContains(coding, word) ==
    /\ coding.kind = "object"
    /\ coding.system.kind = "string"
    /\ includes(coding.system.value, <<word>>)

\* C26 as stated: namasteCodes is the number of codings inside Condition
\* resources whose system URI contains "namaste", and icd11Codes the number
\* of those whose system URI contains "icd" or "who".
CodingCountsBySubstring ==
    WalkReported =>
        /\ ValidateReport.summary.namasteCodes =
              Cardinality({ec \in conditionCodings : uriContains(codingAt(ec), "namaste")})
        /\ ValidateReport.summary.icd11Codes =
              Cardinality({ec \in conditionCodings :
                  uriContains(codingAt(ec), "icd") \/ uriContains(codingAt(ec), "who")})

\* C26: namasteCodes is the number of codings inside Condition resources
\* whose system URI contains "namaste", and icd11Codes the number of those
\* whose system URI does not contain "namaste" and contains "icd" or "who";
\* codings of other resources are not counted.
CodingClassificationCounts ==
    WalkReported =>
        /\ ValidateReport.summary.namasteCodes =
              Cardinality({ec \in conditionCodings : uriContains(codingAt(ec), "namaste")})
        /\ ValidateReport.summary.icd11Codes =
              Cardinality({ec \in conditionCodings :
                  /\ ~uriContains(codingAt(ec), "namaste")
                  /\ uriContains(codingAt(ec), "icd") \/ uriContains(codingAt(ec), "who")})

\* A report for a Condition whose one coding has a URI with both "namaste"
\* and "icd", next to an Observation that carries codings of both systems.
CodingClassificationCountsWitness ==
    /\ WalkReported
    /\ Len(BundleEntries) = 2
    /\ BundleEntries[1].resource = CodedObservation
    /\ BundleEntries[2].resource.resourceType = "Condition"
    /\ conditionCodings = {<<2, 1>>}
    /\ codingAt(<<2, 1>>) = CodingOf(StringSystem(BridgeSystem))
    /\ ValidateReport.summary.namasteCodes = 1
    /\ ValidateReport.summary.icd11Codes = 0

withResource == {e \in 1..Len(BundleEntries) : BundleEntries[e].resource.kind = "object"}

missingWarnings ==
    {w \in 1..Len(ValidateReport.warnings) :
        ValidateReport.warnings[w] = MissingResourceWarning}

\* C27: in a report for a bundle with an entry array, resources is the
\* number of entries that have a resource, there is one "Entry missing
\* resource" warning per entry that has none, so that resources plus those
\* warnings is the number of entries, and conditions is at most resources.
WalkAccounting ==
    WalkReported =>
        /\ ValidateReport.summary.resources = Cardinality(withResource)
        /\ Cardinality(missingWarnings) = Len(BundleEntries) - Cardinality(withResource)
        /\ ValidateReport.summary.resources + Cardinality(missingWarnings)
              = Len(BundleEntries)
        /\ ValidateReport.summary.conditions <= ValidateReport.summary.resources
        /\ ValidateReport.summary.conditions =
              Cardinality({e \in withResource :
                  BundleEntries[e].resource.resourceType = "Condition"})

\* A report for two entries, the first without a resource and the second a
\* Condition: the walk went on past the first.
WalkAccountingWitness ==
    /\ WalkReported
    /\ Len(BundleEntries) = 2
    /\ BundleEntries[1].resource.kind = "absent"
    /\ BundleEntries[2].resource.resourceType = "Condition"
    /\ ValidateReport.summary.resources = 1
    /\ ValidateReport.summary.conditions = 1
    /\ Cardinality(missingWarnings) = 1

-----------------------------------------------------------------------------
(* Further properties of search.                                            *)

\* C28: in a search of the service the provider is asked for a row only if
\* the row's system is NAMASTE, includeSuggestions is set and the repository
\* holds no mapping for the row's code; a row it was not asked for carries
\* exactly the repository's mappings.
SearchEnrichmentGuard ==
    ServiceSearch =>
        \A i \in 1..Len(sresults) :
            LET persisted == getMappingsForCode(scodes[i].code, scodes[i].system)
            IN  /\ sreplies[i] # "notasked" =>
                      /\ scodes[i].system = "NAMASTE"
                      /\ sreq.includeSuggestions
                      /\ Len(persisted) = 0
                /\ sreplies[i] = "notasked" => sresults[i].mappings = persisted

\* A search with includeSuggestions answered with a NAMASTE row that has a
\* stored mapping and a row of another system: the provider was asked for
\* neither.
SearchEnrichmentGuardWitness ==
    /\ ServiceSearch
    /\ spc = "done" /\ sresp.status = 200
    /\ sreq.includeSuggestions
    /\ Len(sresults) = 2
    /\ sresults[1].system = "NAMASTE" /\ Len(sresults[1].mappings) = 1
    /\ sresults[2].system = "ICD-11-TM2" /\ sresults[2].mappings = <<>>
    /\ sreplies = <<"notasked", "notasked">>

-----------------------------------------------------------------------------
(* Routes of the terminology service that write the repository or read it   *)
(* for a ValueSet: POST /api/ingest-csv, POST /api/mappings and             *)
(* GET /api/fhir/ValueSet/:id/expand.                                       *)

MaxIngested == 2

MaxCreated == 1

\* Rows of an uploaded CSV: a code the seed already holds or a new one, a
\* display that is a text or the empty string.
CsvRows ==
    { [code |-> <<"A", "1">>, display |-> <<"A", "g", "n", "i">>, definition |-> NoText],
      [code |-> <<"T", "2">>, display |-> <<"K", "a", "s", "a">>, definition |-> NoText],
      [code |-> <<"T", "2">>, display |-> NoText, definition |-> NoText] }

\* req.body.data: an array of rows, or something that is no array.
CsvBodies ==
    {[kind |-> "nonarray", rows |-> <<>>]}
      \cup [kind : {"array"}, rows : SeqsUpTo(CsvRows, MaxIngested)]

\* ingestCSV: csvData.map(row => ({ ..., system: "NAMASTE" }))
csvToCodes(csvData) ==
    [i \in 1..Len(csvData) |->
        [code |-> csvData[i].code, display |-> csvData[i].display,
         definition |-> csvData[i].definition, system |-> "NAMASTE"]]

\* Mutation of bulkCreateTerminologyCodes: the rows are returned but not stored.
bulkCreateTerminologyCodesNotStored(table, codes) == [table |-> table, results |-> codes]

\* MemStorage.bulkCreateTerminologyCodes: every row is set under a fresh id.
bulkCreateTerminologyCodes(table, codes) == [table |-> table \o codes, results |-> codes]

\* POST /api/ingest-csv with TerminologyService.ingestCSV.
IngestCsv ==
    /\ \E data \in CsvBodies, stored \in BOOLEAN :
          /\ Len(tcodes) + Len(data.rows) <= Len(terminologyCodes) + MaxIngested
          /\ IF data.kind # "array"
             THEN /\ rresp' = [op |-> "ingest", status |-> 400,
                               body |-> [error |-> "CSV data must be an array"]]
                  /\ UNCHANGED tcodes
             ELSE IF ~stored
             THEN /\ rresp' = [op |-> "ingest", status |-> 500,
                               body |-> [error |-> "Internal server error"]]
                  /\ UNCHANGED tcodes
             ELSE LET created == bulkCreateTerminologyCodes(tcodes, csvToCodes(data.rows))
                  IN  /\ tcodes' = created.table
                      /\ rresp' = [op |-> "ingest", status |-> 200,
                                   body |-> [count |-> Len(created.results),
                                             rows |-> data.rows]]
    /\ UNCHANGED smappings
    /\ UNCHANGED <<translateVars, validateVars, buildVars, searchVars>>

\* req.body of POST /api/mappings; "" stands for a member that is missing.
MappingBodies ==
    [sourceCode : {<<"A", "2">>}, sourceSystem : {"NAMASTE"},
     targetCode : {"TM2-RE01", ""}, targetSystem : {"ICD-11-TM2"},
     equivalence : {"equivalent", "relatedto", ""}]

\* MemStorage.createConceptMapping
createServiceMapping(table, insertMapping) ==
    Append(table,
        [id |-> <<"uuid", "m", Len(table) + 1>>,
         sourceCode |-> insertMapping.sourceCode,
         sourceSystem |-> insertMapping.sourceSystem,
         targetCode |-> insertMapping.targetCode,
         targetSystem |-> insertMapping.targetSystem,
         equivalence |-> insertMapping.equivalence,
         confidence |-> insertMapping.confidence])

\* POST /api/mappings with TerminologyService.createMapping.
CreateMapping ==
    /\ Len(smappings) < Len(serviceMappings) + MaxCreated
    /\ \E body \in MappingBodies, stored \in BOOLEAN :
          IF body.targetCode = "" \/ body.equivalence = ""
          THEN /\ rresp' = [op |-> "map", status |-> 400,
                            body |-> [error |-> "All mapping fields are required"]]
               /\ UNCHANGED smappings
          ELSE IF ~stored
          THEN /\ rresp' = [op |-> "map", status |-> 500,
                            body |-> [error |-> "Internal server error"]]
               /\ UNCHANGED smappings
          ELSE /\ smappings' =
                     createServiceMapping(smappings,
                         [sourceCode |-> body.sourceCode,
                          sourceSystem |-> body.sourceSystem,
                          targetCode |-> body.targetCode,
                          targetSystem |-> body.targetSystem,
                          equivalence |-> body.equivalence,
                          confidence |-> "manual"])
               /\ rresp' = [op |-> "map", status |-> 200,
                            body |-> smappings'[Len(smappings')]]
    /\ UNCHANGED tcodes
    /\ UNCHANGED <<translateVars, validateVars, buildVars, searchVars>>

Tm2System == <<"http:", "icd", "who", "int", "tm2">>

DefaultCount == 20

\* req.query.count: missing, or the text given.
CountParams == {"missing", "1", "-1", "abc"}

\* parseInt(count as string): <<>> is NaN.
parseCount(count) ==
    CASE count = "missing" -> <<DefaultCount>>
      [] count = "1" -> <<1>>
      [] count = "-1" -> <<-1>>
      [] count = "abc" -> <<>>

\* Array.prototype.slice(0, end): NaN counts as 0, a negative end counts
\* from the end of the array.
sliceTo(rows, end) ==
    LET n == IF end = <<>> THEN 0
             ELSE IF end[1] < 0
                  THEN (IF Len(rows) + end[1] < 0 THEN 0 ELSE Len(rows) + end[1])
             ELSE IF end[1] > Len(rows) THEN Len(rows)
             ELSE end[1]
    IN  SubSeq(rows, 1, n)

expandContains(codes) ==
    [i \in 1..Len(codes) |->
        [system |-> IF codes[i].system = "NAMASTE" THEN NamasteSystem ELSE Tm2System,
         code |-> codes[i].code,
         display |-> codes[i].display]]

\* Mutation of expandValueSet: contains lists the search result in reverse.
expandValueSetReversed(id, searchResults, count, run) ==
    [resourceType |-> "ValueSet",
     id |-> id,
     expansion |-> [identifier |-> <<"urn:uuid", now(run)>>,
                    timestamp |-> now(run),
                    total |-> Len(searchResults),
                    contains |-> expandContains(
                                    sliceTo(reverse(searchResults), parseCount(count)))]]

\* The ValueSet the expand route builds.
expandValueSet(id, searchResults, count, run) ==
    [resourceType |-> "ValueSet",
     id |-> id,
     expansion |-> [identifier |-> <<"urn:uuid", now(run)>>,
                    timestamp |-> now(run),
                    total |-> Len(searchResults),
                    contains |-> expandContains(
                                    sliceTo(searchResults, parseCount(count)))]]

\* GET /api/fhir/ValueSet/:id/expand
ExpandValueSet ==
    /\ \E id \in {"namaste-codes", "all-codes"},
          filter \in {NoText, <<"k", "a", "s", "a">>},
          count \in CountParams, run \in Runs :
          LET searchResults ==
                  searchTerminologyCodes(filter,
                      IF id = "namaste-codes" THEN <<"NAMASTE">> ELSE <<>>)
          IN  rresp' = [op |-> "expand", status |-> 200,
                        body |-> [valueSet |-> expandValueSet(id, searchResults, count, run),
                                  id |-> id, filter |-> filter, count |-> count]]
    /\ UNCHANGED <<tcodes, smappings>>
    /\ UNCHANGED <<translateVars, validateVars, buildVars, searchVars>>

InitRepo == TranslateIdle /\ ValidateIdle /\ BuildIdle /\ SearchIdle /\ RepoIdle

NextRepo ==
    \/ IngestCsv
    \/ CreateMapping
    \/ ExpandValueSet

SpecRepo == InitRepo /\ [][NextRepo]_vars

-----------------------------------------------------------------------------
(* Properties of the repository routes.                                     *)

\* C21: the repository holds at most one terminology code per (code, system)
\* pair and no terminology code with an empty display, whatever was ingested.
CodeUniqueness ==
    /\ \A i, j \in 1..Len(tcodes) :
          (tcodes[i].code = tcodes[j].code /\ tcodes[i].system = tcodes[j].system)
              => i = j
    /\ \A i \in 1..Len(tcodes) : tcodes[i].display # NoText

Equivalences == {"equivalent", "wider", "narrower", "inexact"}

\* The number a stored confidence text stands for; <<>> when it is no number.
percentOf(confidence) ==
    CASE confidence = "95%" -> <<95>>
      [] OTHER -> <<>>

\* C22: every stored concept mapping has one of the four equivalence values
\* and a confidence that is a number within 0..100.
MappingWellFormed ==
    \A k \in 1..Len(smappings) :
        /\ smappings[k].equivalence \in Equivalences
        /\ percentOf(smappings[k].confidence) # <<>>
        /\ percentOf(smappings[k].confidence)[1] \in 0..100

Expanded == rresp.op = "expand"

\* What the repository search of the last expand request returns; the table
\* has not changed since, every write replaces the response.
expandSearchResult ==
    expandContains(
        searchTerminologyCodes(rresp.body.filter,
            IF rresp.body.id = "namaste-codes" THEN <<"NAMASTE">> ELSE <<>>))

ExpandContainsPrefix ==
    LET contains == rresp.body.valueSet.expansion.contains
    IN  /\ Len(contains) <= Len(expandSearchResult)
        /\ contains = SubSeq(expandSearchResult, 1, Len(contains))

====
